---- MODULE Spec2Model ----
(***************************************************************************)
(* Cost-optimal partitioning of serverless service graphs (hsnlab/SAC).    *)
(*                                                                         *)
(* The partitioning algorithms are pure functions; each is an operator     *)
(* that follows the loops of its source.  A behaviour draws one input      *)
(* (a chain or a tree with its bounds), calls the algorithms on it one     *)
(* after the other and keeps what each call returned.                      *)
(*                                                                         *)
(* Conventions.  Chains are functions over 0..n-1 as in the source.  Tree  *)
(* nodes are 1..n, PLATFORM is node 0.  math.inf is Inf, Python's None     *)
(* (as a cost or latency) is None.  A call that ends in an unhandled       *)
(* exception returns a record whose ret field names the exception.         *)
(***************************************************************************)
EXTENDS Integers, Sequences, FiniteSets, TLC

\* math.inf: larger than every finite quantity of the bounded inputs
Inf == 1000000
\* Python's None where the source returns it as cost or latency
None == -1
\* the synthetic platform node feeding the root
PLATFORM == 0

(***************************************************************************)
(* Bounds of the model                                                     *)
(***************************************************************************)
\* longest chain
MaxLen == 4
\* largest tree (nodes below PLATFORM)
MaxNodes == 4
\* largest runtime of a node
MaxRuntime == 1
\* largest memory of a node
MaxMemory == 2
\* largest invocation rate of an edge
MaxRate == 2
\* largest memory bound M
MaxM == 3
\* largest core bound N
MaxN == 2
\* L ranges over lat_min - delay .. lat_min + MaxSlack * delay
MaxSlack == 1
\* largest invocation delay
MaxDelay == 1
\* largest rounding unit
MaxUnit == 1
\* single nodes (chains and trees of at most ShortLen nodes) take wider values
ShortLen == 1
\* largest runtime of a single node
MaxShortRuntime == 3
\* largest invocation delay for a single node
MaxShortDelay == 2
\* largest rounding unit for a single node
MaxShortUnit == 2
\* most nodes of memory MaxMemory in one chain or tree
MaxHeavy == 1
\* the long chains: LongLen nodes of memory 1 under M = LongLen and N = 1
LongLen == 5
\* largest runtime of a node of a long chain
MaxLongRuntime == 2
\* largest invocation rate of an edge of a long chain
MaxLongRate == 3
\* the rounding unit of the long chains
LongUnit == 2
\* the number of nodes of the trees whose critical path takes two cuts
DeepNodes == 4
\* the delays that L leaves room for on the critical path of those trees
DeepSlack == 2
\* the memory bound of the chains of LongLen nodes with a free latency subchain
LatM == 2
\* the delays that L leaves room for on those chains
LatSlack == 2
\* largest tree that ipostorder_dfs is stepped through
DfsNodes == 5

(***************************************************************************)
(* Arithmetic with math.inf                                                *)
(***************************************************************************)
Max(a, b) == IF a >= b THEN a ELSE b
Min(a, b) == IF a <= b THEN a ELSE b
\* the least element of a non-empty set of numbers
SetMin(S) == CHOOSE x \in S : \A y \in S : x <= y

\* a + b of Python numbers, one of which may be math.inf
Plus(a, b) == IF a >= Inf \/ b >= Inf THEN Inf ELSE a + b

\* math.ceil(a / b) for a >= 0, b > 0; a / math.inf is 0.0
CeilDiv(a, b) == IF b >= Inf THEN 0 ELSE (a + b - 1) \div b

RECURSIVE SumRange(_, _, _)
\* sum(f[lo : hi + 1])
SumRange(f, lo, hi) == IF lo > hi THEN 0 ELSE f[lo] + SumRange(f, lo + 1, hi)

RECURSIVE SumSet(_, _)
\* sum of f over the set S
SumSet(f, S) ==
  IF S = {} THEN 0
  ELSE LET x == CHOOSE y \in S : TRUE IN Plus(f[x], SumSet(f, S \ {x}))

(***************************************************************************)
(* Block arithmetic: alg/util.py, and the same closures of chain_scp.py    *)
(***************************************************************************)
\* sum(memory[b: w + 1])
block_memory(memory, b, w) == SumRange(memory, b, w)

\* block_cost without the rounding up to the unit
block_cost_exact(runtime, rate, b, w, unit) == rate[b] * SumRange(runtime, b, w)

\* rate[b] * (math.ceil(sum(runtime[b: w + 1]) / unit) * unit)
block_cost(runtime, rate, b, w, unit) ==
  rate[b] * (CeilDiv(SumRange(runtime, b, w), unit) * unit)

\* the latency with the delay charged to every block that meets [start, end]
block_latency_with_delay(runtime, b, w, delay, start, end) ==
  IF end < b \/ w < start THEN 0
  ELSE delay + SumRange(runtime, Max(b, start), Min(w, end))

\* latency of block [b, w] on the subchain [start, end]
block_latency(runtime, b, w, delay, start, end) ==
  IF end < b \/ w < start THEN 0
  ELSE LET blk_lat == SumRange(runtime, Max(b, start), Min(w, end))
       IN IF start < b THEN delay + blk_lat ELSE blk_lat

RECURSIVE cpu_reduce_floor(_, _, _, _, _)
\* the reduction with the quotient rounded down
cpu_reduce_floor(rate, b, i, r_max, pre) ==
  IF i < b THEN pre
  ELSE LET m == Max(r_max, rate[i])
       IN cpu_reduce_floor(rate, b, i - 1, m, Max(pre, m \div rate[i]))

RECURSIVE cpu_reduce(_, _, _, _, _)
\* functools.reduce over enumerate(accumulate(reversed(rate[b: w + 1]), max)):
\* i runs from w down to b, r_max is max(rate[i + 1 .. w]), pre the result so far
cpu_reduce(rate, b, i, r_max, pre) ==
  IF i < b THEN pre
  ELSE LET m == Max(r_max, rate[i])
       IN cpu_reduce(rate, b, i - 1, m, Max(pre, CeilDiv(m, rate[i])))

\* CPU core need of block [b, w]
block_cpu(rate, b, w) == cpu_reduce(rate, b, w, 0, 1)

(***************************************************************************)
(* Chain DP: alg/chain_scp.py                                              *)
(***************************************************************************)
\* class State with its defaults (barr = None, cost = inf, lat = inf)
State(barr, cost, lat) == [barr |-> barr, cost |-> cost, lat |-> lat]
StateDefault == State(None, Inf, Inf)

\* sum(1 for i, j in itertools.pairwise(rate) if math.ceil(j / i) > N)
rate_jumps(rate, n, N) ==
  Cardinality({i \in 0..(n - 2) : CeilDiv(rate[i + 1], rate[i]) > N})

\* lat_min of the whole chain, whatever start and end are
chain_lat_min_whole(c) == SumRange(c.runtime, 0, c.n - 1)

\* lat_min := sum(runtime[start: end + 1])
chain_lat_min(c) == SumRange(c.runtime, c.start, c.end)

\* k_min of the preflight check
chain_k_min(c) ==
  Max(CeilDiv(SumRange(c.memory, c.start, c.end), c.M), rate_jumps(c.rate, c.n, c.N))

\* k_max of the preflight check: math.floor(min((L - lat_min) / delay + 1, n))
chain_k_max(c) ==
  IF c.L >= Inf THEN c.n
  ELSE Min((c.L - SumRange(c.runtime, c.start, c.end)) \div c.delay + 1, c.n)

RECURSIVE dp_init_any_block(_, _, _)
\* the initialisation of DP[w][0] without the test of M and N
dp_init_any_block(c, DP, w) ==
  IF w >= c.n THEN DP
  ELSE dp_init_any_block(c, [DP EXCEPT ![w][0] =
                              State(0, block_cost(c.runtime, c.rate, 0, w, c.unit),
                                    block_latency(c.runtime, 0, w, c.delay, c.start, c.end))],
                         w + 1)

RECURSIVE dp_init(_, _, _)
\* lines 95-98: DP[w][0] for the single block [0, w], until M or N is violated
dp_init(c, DP, w) ==
  IF w >= c.n THEN DP
  ELSE IF block_memory(c.memory, 0, w) > c.M \/ block_cpu(c.rate, 0, w) > c.N THEN DP
  ELSE dp_init(c, [DP EXCEPT ![w][0] =
                     State(0, block_cost(c.runtime, c.rate, 0, w, c.unit),
                           block_latency(c.runtime, 0, w, c.delay, c.start, c.end))],
               w + 1)

RECURSIVE dp_b_loop(_, _, _, _, _, _)
\* lines 102-109: b runs from w down to k; cell is DP[w][k]
dp_b_loop(c, DP, w, k, b, cell) ==
  IF b < k THEN cell
  ELSE IF block_memory(c.memory, b, w) > c.M \/ block_cpu(c.rate, b, w) > c.N THEN cell
  ELSE LET lat == Plus(DP[b - 1][k - 1].lat,
                       block_latency(c.runtime, b, w, c.delay, c.start, c.end))
           cost == Plus(DP[b - 1][k - 1].cost,
                        block_cost(c.runtime, c.rate, b, w, c.unit))
       IN dp_b_loop(c, DP, w, k, b - 1,
                    IF lat <= c.L /\ cost <= cell.cost THEN State(b, cost, lat) ELSE cell)

\* Is the k loop of a row left once DP[w][k] is known (lines 111-112)?
k_loop_break(row, k) == row[k - 1].lat < row[k].lat /\ row[k].lat = Inf

RECURSIVE dp_k_loop(_, _, _, _, _)
\* lines 111-112: with row the row DP[w] after its cell k is filled, leave the
\* k loop or go on with k + 1
dp_k_next(c, DP, w, k, row) ==
  IF k_loop_break(row, k) THEN row ELSE dp_k_loop(c, DP, w, k + 1, row)

\* lines 101-112: k runs from 1 to w; row is DP[w]
dp_k_loop(c, DP, w, k, row) ==
  IF k > w THEN row
  ELSE dp_k_next(c, DP, w, k, [row EXCEPT ![k] = dp_b_loop(c, DP, w, k, w, row[k])])

RECURSIVE dp_w_loop(_, _, _)
\* lines 100-112: w runs from 1 to n - 1
dp_w_loop(c, DP, w) ==
  IF w >= c.n THEN DP
  ELSE dp_w_loop(c, [DP EXCEPT ![w] = dp_k_loop(c, DP, w, 1, DP[w])], w + 1)

\* the DP matrix of chain_partitioning (lines 93-112)
chain_dp(c) ==
  dp_w_loop(c, dp_init(c, [w \in 0..(c.n - 1) |-> [k \in 0..w |-> StateDefault]], 0), 1)

\* min(range(n), key=...): the first index of a minimal value of f over 0..n-1
ArgMinFirst(f, n) ==
  CHOOSE k \in 0..(n - 1) :
    /\ \A j \in 0..(n - 1) : f[k] <= f[j]
    /\ \A j \in 0..(k - 1) : f[j] > f[k]

RECURSIVE extract_barr_loop_to_1(_, _, _, _)
\* the loop of extract_barr ended one step early: range(k, 0, -1)
extract_barr_loop_to_1(DP, w, k, barr) ==
  IF k <= 0 THEN barr
  ELSE LET b == DP[w][k].barr IN extract_barr_loop_to_1(DP, b - 1, k - 1, <<b>> \o barr)

RECURSIVE extract_barr_loop(_, _, _, _)
\* the loop of extract_barr, k downwards; barr is built back to front
extract_barr_loop(DP, w, k, barr) ==
  IF k < 0 THEN barr
  ELSE LET b == DP[w][k].barr IN extract_barr_loop(DP, b - 1, k - 1, <<b>> \o barr)

\* barrier nodes of the min-cost subcase with k + 1 blocks
extract_barr(DP, n, k) == extract_barr_loop(DP, n - 1, k, <<>>)

\* what a chain partitioning call returns: ret names the return statement,
\* has_barr is FALSE where the source returns None as barriers
Ret(ret, has_barr, barr, cost, lat) ==
  [ret |-> ret, has_barr |-> has_barr, barr |-> barr, cost |-> cost, lat |-> lat]

\* lines 113-119: the result that chain_partitioning reads from its DP matrix
chain_result(DP, n) ==
  LET k_opt == ArgMinFirst([k \in 0..(n - 1) |-> DP[n - 1][k].cost], n)
  IN IF DP[n - 1][k_opt].cost < Inf
       THEN Ret("opt", TRUE, extract_barr(DP, n, k_opt), DP[n - 1][k_opt].cost,
                DP[n - 1][k_opt].lat)
       ELSE Ret("inf", FALSE, <<>>, Inf, None)

\* chain_partitioning(runtime, memory, rate, M, N, L, start, end, delay, unit)
chain_partitioning(c) ==
  IF c.L < chain_lat_min(c) THEN Ret("lat_min", FALSE, <<>>, None, chain_lat_min(c))
  ELSE IF chain_k_max(c) < chain_k_min(c) THEN Ret("k_min", FALSE, <<>>, None, None)
  ELSE IF c.n = 1
    THEN Ret("single", TRUE, <<0>>, block_cost(c.runtime, c.rate, 0, 0, c.unit),
             block_latency(c.runtime, 0, 0, c.delay, c.start, c.end))
  ELSE chain_result(chain_dp(c), c.n)

\* what a call with ret_dp = True returns: the first element is the DP matrix only
\* where the call returns from its last lines (has_dp)
RetDp(ret, has_dp, DP, cost, lat) ==
  [ret |-> ret, has_dp |-> has_dp, DP |-> DP, cost |-> cost, lat |-> lat]

\* lines 113-119 with ret_dp = True: the DP matrix in place of the barriers
chain_result_dp(DP, n, k_opt) ==
  IF DP[n - 1][k_opt].cost < Inf
    THEN RetDp("opt", TRUE, DP, DP[n - 1][k_opt].cost, DP[n - 1][k_opt].lat)
    ELSE RetDp("inf", FALSE, <<>>, Inf, None)

\* line 114: k_opt of the matrix DP
chain_k_opt(DP, n) == ArgMinFirst([k \in 0..(n - 1) |-> DP[n - 1][k].cost], n)

\* lines 113-119 with ret_dp = True
chain_dp_return(DP, n) == chain_result_dp(DP, n, chain_k_opt(DP, n))

\* chain_partitioning(runtime, memory, rate, M, N, L, start, end, delay, unit,
\* ret_dp=True): the early returns do not look at ret_dp
chain_partitioning_ret_dp(c) ==
  IF c.L < chain_lat_min(c) THEN RetDp("lat_min", FALSE, <<>>, None, chain_lat_min(c))
  ELSE IF chain_k_max(c) < chain_k_min(c) THEN RetDp("k_min", FALSE, <<>>, None, None)
  ELSE IF c.n = 1
    THEN RetDp("single", FALSE, <<>>, block_cost(c.runtime, c.rate, 0, 0, c.unit),
               block_latency(c.runtime, 0, 0, c.delay, c.start, c.end))
  ELSE chain_dp_return(chain_dp(c), c.n)

(***************************************************************************)
(* Vectorised chain DP: alg/chain_vec_SCP.py                               *)
(***************************************************************************)
\* __cache = [0, 0, 0, [0, 0]]: indices MEM, COST, LAT and CPU = [max rate, cpu]
VecCache(mem, cost, lat, max_rate, cpu) ==
  [mem |-> mem, cost |-> cost, lat |-> lat, max_rate |-> max_rate, cpu |-> cpu]

\* block_memory(_v, cumsum): the cache after the call; the call returns its mem
vec_block_memory(c, v, cache) == [cache EXCEPT !.mem = cache.mem + c.memory[v]]

\* block_cpu(_v, cumsum, from_left): the cache after the call
vec_block_cpu_cache(c, v, cache, from_left) ==
  LET m == Max(cache.max_rate, c.rate[v])
  IN IF from_left THEN [cache EXCEPT !.max_rate = m]
     ELSE [cache EXCEPT !.max_rate = m, !.cpu = Max(cache.cpu, CeilDiv(m, c.rate[v]))]

\* block_cpu(_v, cumsum, from_left): the value returned, given the cache after the call
vec_block_cpu(cache, from_left) == IF from_left THEN cache.max_rate ELSE cache.cpu

\* block_cost(_v, cumsum, from_left): the cache after the call
vec_block_cost_cache(c, v, cache) == [cache EXCEPT !.cost = cache.cost + c.runtime[v]]

\* block_cost(_v, cumsum, from_left): the value returned, given the cache after the call
vec_block_cost(c, v, cache, from_left) ==
  c.rate[IF from_left THEN 0 ELSE v] * (CeilDiv(cache.cost, c.unit) * c.unit)

\* block_latency(_b, _w, cumsum, from_left): the cache after the call
vec_block_latency_cache(c, b, w, cache, from_left) ==
  IF c.end < b \/ w < c.start THEN cache
  ELSE IF from_left
    THEN (IF c.end < w THEN cache ELSE [cache EXCEPT !.lat = cache.lat + c.runtime[w]])
    ELSE (IF b < c.start THEN cache ELSE [cache EXCEPT !.lat = cache.lat + c.runtime[b]])

\* block_latency(_b, _w, cumsum, from_left): the value returned, given the cache after
vec_block_latency(c, b, w, cache, from_left) ==
  IF c.end < b \/ w < c.start THEN 0
  ELSE IF from_left /\ c.end < w THEN cache.lat
  ELSE IF ~from_left /\ b < c.start THEN cache.lat
  ELSE IF c.start < b THEN c.delay + cache.lat ELSE cache.lat

RECURSIVE vec_init(_, _, _, _)
\* lines 99-102: the row-0 initialisation, left to right with one cache
vec_init(c, DP, w, cache) ==
  IF w >= c.n THEN DP
  ELSE LET c1 == vec_block_memory(c, w, cache) IN
    IF c1.mem > c.M THEN DP
    ELSE LET c2 == vec_block_cpu_cache(c, w, c1, TRUE) IN
      IF vec_block_cpu(c2, TRUE) > c.N THEN DP
      ELSE LET c3 == vec_block_cost_cache(c, w, c2)
               c4 == vec_block_latency_cache(c, 0, w, c3, TRUE)
           IN vec_init(c, [DP EXCEPT ![w][0] =
                             State(0, vec_block_cost(c, w, c3, TRUE),
                                   vec_block_latency(c, 0, w, c4, TRUE))],
                       w + 1, c4)

\* lines 111-115: the cells DP[w, 1 .. b] overwritten by the subcases of barrier b
vec_store(c, DP, w, b, cost, lat) ==
  [DP EXCEPT ![w] = [k \in 0..(c.n - 1) |->
     IF k \in 1..b
          /\ Plus(DP[b - 1][k - 1].lat, lat) <= c.L
          /\ Plus(DP[b - 1][k - 1].cost, cost) <= DP[w][k].cost
       THEN State(b, Plus(DP[b - 1][k - 1].cost, cost), Plus(DP[b - 1][k - 1].lat, lat))
       ELSE DP[w][k]]]

RECURSIVE vec_b_loop(_, _, _, _, _)
\* lines 107-115: b runs from w down to 1 with one cache
vec_b_loop(c, DP, w, b, cache) ==
  IF b < 1 THEN DP
  ELSE LET c1 == vec_block_memory(c, b, cache) IN
    IF c1.mem > c.M THEN DP
    ELSE LET c2 == vec_block_cpu_cache(c, b, c1, FALSE) IN
      IF vec_block_cpu(c2, FALSE) > c.N THEN DP
      ELSE LET c3 == vec_block_cost_cache(c, b, c2)
               c4 == vec_block_latency_cache(c, b, w, c3, FALSE)
           IN vec_b_loop(c, vec_store(c, DP, w, b, vec_block_cost(c, b, c3, FALSE),
                                      vec_block_latency(c, b, w, c4, FALSE)),
                         w, b - 1, c4)

RECURSIVE vec_w_loop(_, _, _)
\* lines 104-115: w runs from 1 to n - 1, with a fresh cache for every w
vec_w_loop(c, DP, w) ==
  IF w >= c.n THEN DP
  ELSE vec_w_loop(c, vec_b_loop(c, DP, w, w, VecCache(0, 0, 0, 0, 0)), w + 1)

\* the DP matrix of vec_chain_partitioning: np.full((n, n, 3), np.inf)
vec_chain_dp(c) ==
  vec_w_loop(c,
    vec_init(c, [w \in 0..(c.n - 1) |-> [k \in 0..(c.n - 1) |-> State(Inf, Inf, Inf)]],
             0, VecCache(0, 0, 0, 0, 0)),
    1)

\* extract_vec_barr: the same backtracking on the barrier plane of the matrix
extract_vec_barr(DP, n, k) == extract_barr_loop(DP, n - 1, k, <<>>)

\* lines 117-122: the result that vec_chain_partitioning reads from its DP matrix
vec_result(DP, n) ==
  LET k_opt == ArgMinFirst([k \in 0..(n - 1) |-> DP[n - 1][k].cost], n)
  IN IF DP[n - 1][k_opt].cost < Inf
       THEN Ret("opt", TRUE, extract_vec_barr(DP, n, k_opt), DP[n - 1][k_opt].cost,
                DP[n - 1][k_opt].lat)
       ELSE Ret("inf", FALSE, <<>>, Inf, None)

\* vec_chain_partitioning(runtime, memory, rate, M, N, L, start, end, delay, unit)
vec_chain_partitioning(c) ==
  IF c.L < chain_lat_min(c) THEN Ret("lat_min", FALSE, <<>>, None, chain_lat_min(c))
  ELSE IF chain_k_max(c) < chain_k_min(c) THEN Ret("k_min", FALSE, <<>>, None, None)
  \* line 93: block_cost(0) adds to its default cumsum, a tuple: TypeError
  ELSE IF c.n = 1 THEN Ret("TypeError", FALSE, <<>>, None, None)
  ELSE vec_result(vec_chain_dp(c), c.n)

(***************************************************************************)
(* Chain oracle: alg/chain_greedy.py                                       *)
(***************************************************************************)
\* the sorted barrier list of a set of barrier nodes
RECURSIVE SortedSeq(_)
SortedSeq(S) ==
  IF S = {} THEN <<>>
  ELSE LET m == CHOOSE x \in S : \A y \in S : x <= y IN <<m>> \o SortedSeq(S \ {m})

\* recreate_chain_blocks(barr, n): the blocks as pairs <<b, w>> of first and last node
recreate_chain_blocks(barr, n) ==
  [i \in 1..Len(barr) |-> <<barr[i], (IF i < Len(barr) THEN barr[i + 1] ELSE n) - 1>>]

\* ipowerset(range(1, n), start): the cuts of at least start nodes
ipowerset(S, start) == {cut \in SUBSET S : Cardinality(cut) >= start}

\* ichain_blocks(memory, M, rate, N): the barrier lists whose blocks all meet M and N
ichain_blocks(c) ==
  {barr \in {SortedSeq({0} \cup cut) :
               cut \in ipowerset(1..(c.n - 1), CeilDiv(SumRange(c.memory, 0, c.n - 1), c.M) - 1)} :
     \A i \in 1..Len(barr) :
        LET blk == recreate_chain_blocks(barr, c.n)[i]
        IN block_memory(c.memory, blk[1], blk[2]) <= c.M
             /\ block_cpu(c.rate, blk[1], blk[2]) <= c.N}

RECURSIVE SumSeq(_, _)
\* sum of f over the blocks of a partition
SumSeq(f(_), blocks) ==
  IF blocks = <<>> THEN 0 ELSE f(Head(blocks)) + SumSeq(f, Tail(blocks))

\* sum_lat of a partition in greedy_chain_partitioning
chain_sum_lat(c, barr) ==
  LET lat(blk) == block_latency(c.runtime, blk[1], blk[2], c.delay, c.start, c.end)
  IN SumSeq(lat, recreate_chain_blocks(barr, c.n))

\* sum_cost of a partition in greedy_chain_partitioning
chain_sum_cost(c, barr) ==
  LET cost(blk) == block_cost(c.runtime, c.rate, blk[1], blk[2], c.unit)
  IN SumSeq(cost, recreate_chain_blocks(barr, c.n))

\* greedy_chain_partitioning: the best cost and the barrier lists of the partitions
\* of best_res; no partition and cost inf when nothing is feasible.
\* ipowerset raises ValueError for a negative start, that is M = inf.
greedy_chain_partitioning(c) ==
  IF CeilDiv(SumRange(c.memory, 0, c.n - 1), c.M) - 1 < 0
    THEN [ret |-> "ValueError", cost |-> None, parts |-> {}]
  ELSE LET feasible == {barr \in ichain_blocks(c) : chain_sum_lat(c, barr) <= c.L}
           best_cost == SetMin({chain_sum_cost(c, barr) : barr \in feasible})
       IN IF feasible = {}
            THEN [ret |-> "best_res", cost |-> Inf, parts |-> {}]
            ELSE [ret |-> "best_res", cost |-> best_cost,
                  parts |-> {barr \in feasible : chain_sum_cost(c, barr) = best_cost}]

(***************************************************************************)
(* Trees: alg/util.py                                                      *)
(* A tree t has nodes 1..t.n; t.parent[v] is the predecessor of v, which   *)
(* is PLATFORM for the root; t.rate[v] is the rate of the edge entering v. *)
(***************************************************************************)
\* sg.succ[v], iterated in increasing order of the node ids
succ(t, v) == {m \in 1..t.n : t.parent[m] = v}

RECURSIVE ibacktrack_chain(_, _, _)
\* the nodes from leaf back to start (to PLATFORM when start is no ancestor)
ibacktrack_chain(t, start, leaf) ==
  IF leaf = start \/ leaf = PLATFORM THEN {leaf}
  ELSE {leaf} \cup ibacktrack_chain(t, start, t.parent[leaf])

\* cpath = set(ibacktrack_chain(sg, root, cp_end))
cpath(t) == ibacktrack_chain(t, t.root, t.cp_end)

RECURSIVE Concat(_, _)
\* the concatenation of f(x) over the elements x of the sequence xs
Concat(f(_), xs) == IF xs = <<>> THEN <<>> ELSE f(Head(xs)) \o Concat(f, Tail(xs))

RECURSIVE ipostorder_dfs(_, _)
\* the pairs <<predecessor, node>> below source in DFS post-order
ipostorder_dfs(t, source) ==
  LET below(c) == ipostorder_dfs(t, c) \o << <<source, c>> >>
  IN Concat(below, SortedSeq(succ(t, source)))

\* the traversal that yields a node when it is pushed and nothing when it is popped
dfs_step_preorder(t, d) ==
  LET top == d.stack[Len(d.stack)]
      rest == SubSeq(d.stack, 1, Len(d.stack) - 1)
      c == Head(top.it)
  IN IF top.it # <<>>
       THEN [d EXCEPT !.stack = rest \o <<[top EXCEPT !.it = Tail(@)]>>
                                   \o <<[v |-> c, it |-> SortedSeq(succ(t, c))]>>,
                      !.out = Append(@, <<top.v, c>>)]
       ELSE [d EXCEPT !.stack = rest, !.pc = IF rest # <<>> THEN "run" ELSE "done"]

\* one turn of the while loop of ipostorder_dfs on the stack of entries (node,
\* what its iterator still holds): next(ichildren) pushes the child c,
\* StopIteration pops the node and yields it with the node below it on the stack;
\* the loop ends when the stack is empty
dfs_step(t, d) ==
  LET top == d.stack[Len(d.stack)]
      rest == SubSeq(d.stack, 1, Len(d.stack) - 1)
      c == Head(top.it)
  IN IF top.it # <<>>
       THEN [d EXCEPT !.stack = rest \o <<[top EXCEPT !.it = Tail(@)]>>
                                   \o <<[v |-> c, it |-> SortedSeq(succ(t, c))]>>]
       ELSE IF rest # <<>>
              THEN [d EXCEPT !.stack = rest, !.out = Append(@, <<rest[Len(rest)].v, top.v>>)]
              ELSE [d EXCEPT !.stack = rest, !.pc = "done"]

RECURSIVE label(_, _)
\* label_nodes: the set of the leaves that can be reached from v
label(t, v) ==
  IF succ(t, v) = {} THEN {v} ELSE UNION {label(t, m) : m \in succ(t, v)}

RECURSIVE first_chain(_, _)
\* lines 124-126 of isubchains: follow the only successor while there is exactly one
first_chain(t, chain) ==
  LET s == succ(t, chain[Len(chain)])
  IN IF Cardinality(s) = 1 THEN first_chain(t, Append(chain, CHOOSE m \in s : TRUE))
     ELSE chain

RECURSIVE isubchains(_, _, _)
\* the subchains from start to every reachable leaf, each bisected at the last node
\* from which leaf is reachable, with the branches leaving the subchain
isubchains(t, start, leaf) ==
  LET chain == first_chain(t, <<start>>)
      children == succ(t, chain[Len(chain)])
      of_child(c) ==
        LET sub == isubchains(t, c, leaf)
        IN [i \in 1..Len(sub) |->
              IF leaf \in label(t, sub[i].head[1])
                THEN [head |-> chain \o sub[i].head, tail |-> sub[i].tail,
                      branches |-> (children \ {c}) \cup sub[i].branches]
                ELSE [head |-> chain, tail |-> sub[i].head \o sub[i].tail,
                      branches |-> (children \ {c}) \cup sub[i].branches]]
  IN IF children = {} THEN << [head |-> chain, tail |-> <<>>, branches |-> {}] >>
     ELSE Concat(of_child, SortedSeq(children))

\* the set of the elements of a sequence
Range(xs) == {xs[i] : i \in 1..Len(xs)}

\* the chain partitioning call on the nodes of subchain, whose vectors are
\* zip(*[(runtime(v), memory(v), rate(u, v)) for u, v in pairwise([pred, *subchain])])
subchain_call(t, subchain, L, start, end) ==
  [n |-> Len(subchain),
   runtime |-> [i \in 0..(Len(subchain) - 1) |-> t.runtime[subchain[i + 1]]],
   memory |-> [i \in 0..(Len(subchain) - 1) |-> t.memory[subchain[i + 1]]],
   rate |-> [i \in 0..(Len(subchain) - 1) |-> t.rate[subchain[i + 1]]],
   M |-> t.M, N |-> t.N, L |-> L, start |-> start, end |-> end,
   delay |-> t.delay, unit |-> t.unit]

\* c_max rounded up: one cut more than L pays for
tree_c_max_ceil(t) ==
  LET cp == cpath(t) \ {PLATFORM}
  IN IF t.L >= Inf THEN Cardinality(cp) - 1
     ELSE Min((t.L - SumSet(t.runtime, cp)) \div t.delay + 1, Cardinality(cp) - 1)

\* c_max = math.floor(min((L - sum of the runtimes on cpath) / delay, len(cpath) - 1))
tree_c_max(t) ==
  LET cp == cpath(t) \ {PLATFORM}
  IN IF t.L >= Inf THEN Cardinality(cp) - 1
     ELSE Min((t.L - SumSet(t.runtime, cp)) \div t.delay, Cardinality(cp) - 1)

(***************************************************************************)
(* Tree DP, meta algorithm: alg/tree_meta_MTP.py                           *)
(***************************************************************************)
\* class TPart with its defaults (barr = set(), cost = inf)
TPart(barr, cost) == [barr |-> barr, cost |-> cost]
TPartDefault == TPart({}, Inf)

\* what a tree partitioning call returns: ret names the return statement or the
\* unhandled exception, part is the set of the returned blocks (lists of nodes)
TreeRet(ret, part, cost, third) ==
  [ret |-> ret, part |-> part, cost |-> cost, third |-> third]

\* the state of the loop over the nodes: the DP lists, and once the call has ended
\* (done) what it returned or raised
MtpState(DP, done, result) == [DP |-> DP, done |-> done, result |-> result]
MtpRaise(st, exc) == MtpState(st.DP, TRUE, TreeRet(exc, {}, None, None))

\* {subchain[b] for b in barr}
barr_nodes(subchain, barr) == {subchain[barr[i] + 1] : i \in 1..Len(barr)}

RECURSIVE mtp_store_from(_, _, _, _, _)
\* lines 94-96: for c in range(c, c_max + 1): store part where it is cheaper
mtp_store_from(row, c, c_max, part, sum_cost) ==
  IF c > c_max THEN row
  ELSE mtp_store_from(IF sum_cost < row[c].cost THEN [row EXCEPT ![c] = part] ELSE row,
                      c + 1, c_max, part, sum_cost)

\* lines 84-85, 111-112, 142-143: store part in DP[n][c] where it is cheaper
mtp_store(row, c, part) == IF part.cost < row[c].cost THEN [row EXCEPT ![c] = part] ELSE row

RECURSIVE mtp_tail_loop(_, _, _, _, _, _, _, _, _)
\* lines 111-112 for one c, with the best subcase so far, and on to c + 1
mtp_tail_next(row, CDP, subchain, c, c_max, best, sum_m_barr, sum_m_cost) ==
  mtp_tail_loop(mtp_store(row, c, best.part), CDP, subchain, c + 1, c_max, best, TRUE,
                sum_m_barr, sum_m_cost)

\* lines 101-112: the cheapest CDP[-1][c] for every allowed c; best is
\* [c, part] of c_best and part_best, has_best is FALSE while part_best is None
mtp_tail_loop(row, CDP, subchain, c, c_max, best, has_best, sum_m_barr, sum_m_cost) ==
  IF c > c_max THEN [row |-> row, exc |-> FALSE]
  ELSE IF c < Len(subchain) /\ CDP[Len(subchain) - 1][c].cost = Inf
    THEN mtp_tail_loop(row, CDP, subchain, c + 1, c_max, best, has_best,
                       sum_m_barr, sum_m_cost)
  ELSE IF c < Len(subchain)
            /\ (c = 0 \/ CDP[Len(subchain) - 1][c].cost
                           < CDP[Len(subchain) - 1][best.c].cost)
    THEN mtp_tail_next(row, CDP, subchain, c, c_max,
                       [c |-> c,
                        part |-> TPart(barr_nodes(subchain, extract_barr(CDP, Len(subchain), c))
                                         \cup sum_m_barr,
                                       Plus(CDP[Len(subchain) - 1][c].cost, sum_m_cost))],
                       sum_m_barr, sum_m_cost)
  \* part_best.cost with part_best None
  ELSE IF ~has_best THEN [row |-> row, exc |-> TRUE]
  ELSE mtp_tail_next(row, CDP, subchain, c, c_max, best, sum_m_barr, sum_m_cost)

\* the cache filled for every _c up to c_head, whatever the cuts of barr
mtp_cache_fill_from_0(cache, lo, hi, entry) ==
  [c \in DOMAIN cache |-> IF c <= hi THEN entry ELSE cache[c]]

RECURSIVE mtp_cache_fill(_, _, _, _)
\* lines 139-140: c_cache[_c] = (barr, opt_cost) for _c in len(barr) - 1 .. c_head
mtp_cache_fill(cache, lo, hi, entry) ==
  IF lo > hi THEN cache
  ELSE mtp_cache_fill([cache EXCEPT ![lo] = entry], lo + 1, hi, entry)

\* lines 129-134: (barr, opt_cost) of c_head from c_cache, or else from the call r
mtp_head_entry(cache, c_head, r) ==
  IF cache[c_head].has
    THEN [cached |-> TRUE, has_barr |-> TRUE, barr |-> cache[c_head].barr,
          cost |-> cache[c_head].cost]
    ELSE [cached |-> FALSE, has_barr |-> r.has_barr, barr |-> r.barr, cost |-> r.cost]

RECURSIVE mtp_head_loop(_, _, _, _, _, _, _, _, _)
\* lines 136-143 for one c_head with its entry e, and on to c_head - 1
mtp_head_step(t, sc, c_max, k, c_head, m_part, sum_m_barr, sum_m_cost, x, e) ==
  IF ~e.has_barr THEN x
  \* opt_cost + DP[m_cp][k].cost with a None cost
  ELSE IF m_part.cost = None THEN [x EXCEPT !.exc = TRUE]
  ELSE mtp_head_loop(t, sc, c_max, k, c_head - 1, m_part, sum_m_barr, sum_m_cost,
         [row |-> mtp_store(x.row, k + c_head + 1,
                            TPart(barr_nodes(sc.head \o sc.tail, e.barr) \cup m_part.barr
                                    \cup sum_m_barr,
                                  Plus(Plus(e.cost, m_part.cost), sum_m_cost))),
          cache |-> IF e.cached THEN x.cache
                    ELSE mtp_cache_fill(x.cache, Len(e.barr) - 1, c_head,
                                        [has |-> TRUE, barr |-> e.barr, cost |-> e.cost]),
          exc |-> FALSE])

\* lines 127-143: c_head runs from c_max - k - 1 down to 0; x is [row, cache, exc];
\* cache[c].has tells whether c is in c_cache
mtp_head_loop(t, sc, c_max, k, c_head, m_part, sum_m_barr, sum_m_cost, x) ==
  IF c_head < 0 THEN x
  ELSE mtp_head_step(t, sc, c_max, k, c_head, m_part, sum_m_barr, sum_m_cost, x,
         mtp_head_entry(x.cache, c_head,
           chain_partitioning(subchain_call(t, sc.head \o sc.tail,
                                            SumSet(t.runtime, Range(sc.head))
                                              + c_head * t.delay,
                                            0, Len(sc.head) - 1))))

RECURSIVE mtp_k_loop(_, _, _, _, _, _, _, _)
\* lines 118-143: k runs over the cuts of the subtree of m_cp; x is [row, cache, exc]
mtp_k_loop(t, sc, c_max, k, m_list, sum_m_barr, sum_m_cost, x) ==
  IF k >= c_max \/ x.exc THEN x
  ELSE IF m_list[k].cost = Inf
    THEN mtp_k_loop(t, sc, c_max, k + 1, m_list, sum_m_barr, sum_m_cost, x)
  \* DP[m_cp][k - 1].cost <= DP[m_cp][k].cost with a None cost
  ELSE IF k > 0 /\ (m_list[k - 1].cost = None \/ m_list[k].cost = None)
    THEN [x EXCEPT !.exc = TRUE]
  ELSE IF k > 0 /\ m_list[k - 1].cost <= m_list[k].cost
    THEN mtp_k_loop(t, sc, c_max, k + 1, m_list, sum_m_barr, sum_m_cost, x)
  ELSE mtp_k_loop(t, sc, c_max, k + 1, m_list, sum_m_barr, sum_m_cost,
                  mtp_head_loop(t, sc, c_max, k, c_max - k - 1, m_list[k],
                                sum_m_barr, sum_m_cost, x))

\* lines 81-85: the subchain has no node on cpath; r is what partition returned
mtp_off_cpath(st, n, subchain, sum_m_barr, sum_m_cost, r) ==
  \* opt_cost + sum_m_cost with opt_cost None
  IF r.cost = None THEN MtpRaise(st, "TypeError")
  ELSE [st EXCEPT !.DP[n] =
          mtp_store(@, 0, TPart(barr_nodes(subchain, r.barr) \cup sum_m_barr,
                                Plus(r.cost, sum_m_cost)))]

\* lines 89-96: the subchain is cpath; r is what partition returned under L
mtp_whole_cpath(st, n, c_max, subchain, sum_m_barr, sum_m_cost, r) ==
  IF ~r.has_barr THEN MtpState(st.DP, TRUE, TreeRet("no_barr", {}, r.cost, r.lat))
  ELSE [st EXCEPT !.DP[n] =
          mtp_store_from(@, Len(r.barr) - 1, c_max,
                         TPart(barr_nodes(subchain, r.barr) \cup sum_m_barr,
                               Plus(r.cost, sum_m_cost)),
                         Plus(r.cost, sum_m_cost))]

\* line 104 onwards, with x what the loop over c left: [row, exc]
mtp_tail_done(st, n, x) ==
  IF x.exc THEN MtpRaise(st, "AttributeError") ELSE [st EXCEPT !.DP[n] = x.row]

\* lines 98-112: the subchain is the tail of cpath; ret tells how the call of
\* partition with ret_dp ended, CDP is its DP matrix
mtp_tail_cpath(st, n, c_max, subchain, sum_m_barr, sum_m_cost, ret, CDP) ==
  \* CDP[-1][c] with CDP None, or the barrier list [0] of a single node
  IF ret # "opt" THEN MtpRaise(st, "TypeError")
  ELSE mtp_tail_done(st, n,
         mtp_tail_loop(st.DP[n], CDP, subchain, 0, c_max, [c |-> 0, part |-> TPartDefault],
                       FALSE, sum_m_barr, sum_m_cost))

\* lines 115-143 done, with x what the loops left: [row, cache, exc]
mtp_straddle_done(st, n, x) ==
  IF x.exc THEN MtpRaise(st, "TypeError") ELSE [st EXCEPT !.DP[n] = x.row]

\* lines 114-143: the head of the subchain is on cpath, its tail is not
mtp_straddle(t, st, c_max, n, sc, sum_m_barr, sum_m_cost) ==
  mtp_straddle_done(st, n,
    mtp_k_loop(t, sc, c_max, 0,
               st.DP[CHOOSE m \in succ(t, sc.head[Len(sc.head)]) : m \in cpath(t)],
               sum_m_barr, sum_m_cost,
               [row |-> st.DP[n],
                cache |-> [c \in 0..c_max |-> [has |-> FALSE, barr |-> <<>>, cost |-> 0]],
                exc |-> FALSE]))

\* lines 80-143: the four cases of a subchain, given the sums over its branches
mtp_cases(t, c_max, n, sc, st, subchain, sum_m_barr, sum_m_cost) ==
  IF n \notin cpath(t)
    THEN mtp_off_cpath(st, n, subchain, sum_m_barr, sum_m_cost,
           chain_partitioning(subchain_call(t, subchain, Inf, 0, Len(subchain) - 1)))
  ELSE IF subchain[Len(subchain)] = t.cp_end /\ subchain[1] = t.root
    THEN mtp_whole_cpath(st, n, c_max, subchain, sum_m_barr, sum_m_cost,
           chain_partitioning(subchain_call(t, subchain, t.L, 0, Len(subchain) - 1)))
  ELSE IF subchain[Len(subchain)] = t.cp_end
    THEN mtp_tail_cpath(st, n, c_max, subchain, sum_m_barr, sum_m_cost,
           chain_partitioning(subchain_call(t, subchain, Inf, 0, Len(subchain) - 1)).ret,
           chain_dp(subchain_call(t, subchain, Inf, 0, Len(subchain) - 1)))
  ELSE mtp_straddle(t, st, c_max, n, sc, sum_m_barr, sum_m_cost)

\* the branches of a subchain that are not on cpath
mtp_side(t, sc) == sc.branches \ cpath(t)

\* lines 75-143: one subchain of node n
mtp_subchain(t, c_max, n, sc, st) ==
  \* line 78: sum() over a None cost
  IF \E m \in mtp_side(t, sc) : st.DP[m][0].cost = None THEN MtpRaise(st, "TypeError")
  ELSE mtp_cases(t, c_max, n, sc, st, sc.head \o sc.tail,
                 UNION {st.DP[m][0].barr : m \in mtp_side(t, sc)},
                 SumSet([m \in mtp_side(t, sc) |-> st.DP[m][0].cost], mtp_side(t, sc)))

RECURSIVE mtp_subchains(_, _, _, _, _, _)
\* line 74: for (head_part, tail_part), branches in isubchains(sg, n, cp_end)
mtp_subchains(t, c_max, n, subs, i, st) ==
  IF i > Len(subs) \/ st.done THEN st
  ELSE mtp_subchains(t, c_max, n, subs, i + 1, mtp_subchain(t, c_max, n, subs[i], st))

\* lines 70-72: the subcases of a leaf, opt_cost is what partition returned as cost
mtp_leaf(t, c_max, n, st, opt_cost) ==
  [st EXCEPT !.DP[n] = [c \in 0..((IF n = t.cp_end THEN c_max ELSE 1) - 1) |->
                          TPart({n}, opt_cost)]]

\* lines 64-146: one pair (pred, n) of the post-order traversal
mtp_node(t, c_max, pred, n, st) ==
  IF Cardinality(succ(t, pred)) <= 1 /\ pred # PLATFORM THEN st
  ELSE IF n \in label(t, t.root)
    THEN mtp_leaf(t, c_max, n, st, chain_partitioning(subchain_call(t, <<n>>, Inf, 0, 0)).cost)
  \* line 145: min() of two TParts is never equal to math.inf, so the return of
  \* line 146 is not taken
  ELSE mtp_subchains(t, c_max, n, isubchains(t, n, t.cp_end), 1, st)

RECURSIVE mtp_nodes(_, _, _, _, _)
\* line 63: for pred, n in ipostorder_dfs(sg, PLATFORM)
mtp_nodes(t, c_max, order, i, st) ==
  IF i > Len(order) \/ st.done THEN st
  ELSE mtp_nodes(t, c_max, order, i + 1, mtp_node(t, c_max, order[i][1], order[i][2], st))

RECURSIVE rbb_walk(_, _, _, _)
\* lines 162-166 of recreate_barr_blocks: from v up to a barrier, taking the nodes
\* not yet taken; x is [blk, taken, exc]; n[v] with v = PLATFORM is a TypeError
rbb_walk(t, barr, v, x) ==
  IF v \in barr THEN x
  ELSE LET u == t.parent[v]
       IN IF u = PLATFORM THEN [x EXCEPT !.exc = TRUE]
          ELSE rbb_walk(t, barr, u,
                        IF u \in x.taken THEN x
                        ELSE [x EXCEPT !.blk = <<u>> \o x.blk, !.taken = x.taken \cup {u}])

RECURSIVE rbb_loop(_, _, _, _)
\* lines 167-168: the block x.blk that the walk from w collected, and on to w - 1
rbb_next(t, barr, w, y, x) ==
  rbb_loop(t, barr, w - 1, [p |-> y.p \cup {x.blk}, taken |-> x.taken, exc |-> x.exc])

\* lines 158-168: w runs from the last node down to 1; y is [p, taken, exc]
rbb_loop(t, barr, w, y) ==
  IF w < 1 \/ y.exc THEN y
  ELSE IF w \in y.taken THEN rbb_loop(t, barr, w - 1, y)
  ELSE rbb_next(t, barr, w, y,
                rbb_walk(t, barr, w, [blk |-> <<w>>, taken |-> y.taken \cup {w},
                                      exc |-> FALSE]))

\* recreate_barr_blocks(sg, barr): the blocks of the barrier nodes
recreate_barr_blocks(t, barr) ==
  IF barr = {} THEN [p |-> {}, taken |-> {}, exc |-> FALSE]
  ELSE rbb_loop(t, barr, t.n, [p |-> {}, taken |-> {}, exc |-> FALSE])

\* line 149: the blocks of the best barrier nodes, with cost and c_opt
mtp_return(blocks, cost, c_opt) ==
  IF blocks.exc THEN TreeRet("TypeError", {}, None, None)
  ELSE TreeRet("opt", blocks.p, cost, c_opt)

\* lines 147-149: c_opt of the row DP[root]; min() of an empty range is a ValueError
mtp_best(t, row, len) ==
  IF len = 0 THEN TreeRet("ValueError", {}, None, None)
  ELSE LET c_opt == ArgMinFirst([c \in 0..(len - 1) |-> row[c].cost], len)
       IN mtp_return(recreate_barr_blocks(t, row[c_opt].barr), row[c_opt].cost, c_opt)

\* lines 63-149 once the loop over the nodes has ended in st
mtp_result(t, st) ==
  IF st.done THEN st.result
  ELSE mtp_best(t, st.DP[t.root], Cardinality(DOMAIN st.DP[t.root]))

\* mtp_tree_partitioning(sg, root, M, N, L, cp_end, delay, unit)
mtp_tree_partitioning(t) ==
  IF tree_c_max(t) < 0 THEN TreeRet("c_max", {}, None, tree_c_max(t))
  ELSE mtp_result(t, mtp_nodes(t, tree_c_max(t), ipostorder_dfs(t, PLATFORM), 1,
                               MtpState([v \in 1..t.n |->
                                           [c \in 0..tree_c_max(t) |-> TPartDefault]],
                                        FALSE, TreeRet("", {}, None, None))))

\* lines 147-149 with only_barr = True: list(best_barrs) in place of the blocks
mtp_best_only_barr(row, len) ==
  IF len = 0 THEN TreeRet("ValueError", {}, None, None)
  ELSE LET c_opt == ArgMinFirst([c \in 0..(len - 1) |-> row[c].cost], len)
       IN TreeRet("opt", row[c_opt].barr, row[c_opt].cost, c_opt)

\* lines 63-149 with only_barr = True once the loop over the nodes has ended in st
mtp_result_only_barr(t, st) ==
  IF st.done THEN st.result
  ELSE mtp_best_only_barr(st.DP[t.root], Cardinality(DOMAIN st.DP[t.root]))

\* mtp_tree_partitioning(sg, root, M, N, L, cp_end, delay, unit, only_barr=True):
\* part is the set of the barrier nodes
mtp_tree_partitioning_only_barr(t) ==
  IF tree_c_max(t) < 0 THEN TreeRet("c_max", {}, None, tree_c_max(t))
  ELSE mtp_result_only_barr(t,
         mtp_nodes(t, tree_c_max(t), ipostorder_dfs(t, PLATFORM), 1,
                   MtpState([v \in 1..t.n |-> [c \in 0..tree_c_max(t) |-> TPartDefault]],
                            FALSE, TreeRet("", {}, None, None))))

(***************************************************************************)
(* Tree DP, bottom-up algorithm: alg/tree_rec_BTP.py                       *)
(***************************************************************************)
\* inf - inf of float arithmetic
NaN == -2
Minus(a, b) == IF a >= Inf /\ b >= Inf THEN NaN ELSE IF a >= Inf THEN Inf ELSE a - b
PlusNaN(a, b) == IF a = NaN \/ b = NaN THEN NaN ELSE Plus(a, b)

\* class TBlock with its defaults
TBlock(w, sum_cost, cumsum, mem, max_rate, cpu) ==
  [w |-> w, sum_cost |-> sum_cost, cumsum |-> cumsum, mem |-> mem,
   max_rate |-> max_rate, cpu |-> cpu]
TBlockDefault == TBlock(None, Inf, 0, Inf, 0, 1)

\* DP[node] is a defaultdict of deques: keys is the list of its keys in the order
\* of their insertion, q[c] the deque of key c (empty while c is no key).
\* The state of a call is [DP, exc]; exc names the exception that ended it.
btp_touch(st, node, c) ==
  IF \E i \in 1..Len(st.DP[node].keys) : st.DP[node].keys[i] = c THEN st
  ELSE [st EXCEPT !.DP[node].keys = Append(@, c)]

\* block_cost(pred, barr, cumsum, expand): [cost, cumsum]
btp_block_cost(t, barr, cumsum, expand) ==
  LET cs == IF expand THEN cumsum + t.runtime[barr] ELSE cumsum
  IN [cost |-> t.rate[barr] * (CeilDiv(cs, t.unit) * t.unit), cumsum |-> cs]

\* block_cpu(pred, node, max_rate, cpu): [cpu, max_rate]
btp_block_cpu(t, node, max_rate, cpu) ==
  LET blk_max_rate == Max(max_rate, t.rate[node])
  IN [cpu |-> Max(cpu, CeilDiv(blk_max_rate, t.rate[node])), max_rate |-> blk_max_rate]

\* qmin(node, c_n); DP[node][c_n][0] of an empty deque is an IndexError
qmin_ok(st, node, c_n) == c_n \in DOMAIN st.DP[node].q /\ Len(st.DP[node].q[c_n]) > 0
qmin(st, node, c_n) == st.DP[node].q[c_n][1].sum_cost

\* qinsert with every subcase appended at the right
qinsert_at_right(st, node, c_n, blk) ==
  [st EXCEPT !.DP[node].q[c_n] = Append(@, blk)]

\* qinsert with every subcase put at the left
qinsert_at_left(st, node, c_n, blk) ==
  [st EXCEPT !.DP[node].q[c_n] = <<blk>> \o @]

\* lines 86-89 of qinsert, once DP[node][c_n] exists: at the left when blk is not
\* dearer than the first subcase, else at the right
qinsert_at(st, node, c_n, blk) ==
  IF Len(st.DP[node].q[c_n]) > 0 /\ blk.sum_cost <= st.DP[node].q[c_n][1].sum_cost
    THEN [st EXCEPT !.DP[node].q[c_n] = <<blk>> \o @]
    ELSE [st EXCEPT !.DP[node].q[c_n] = Append(@, blk)]

\* qinsert without the test of the memory bound
qinsert_any_mem(t, st, node, c_n, blk) ==
  IF blk.sum_cost # NaN /\ blk.sum_cost < Inf /\ blk.cpu <= t.N
    THEN qinsert_at(btp_touch(st, node, c_n), node, c_n, blk)
    ELSE st

\* qinsert(node, c_n, blk)
qinsert(t, st, node, c_n, blk) ==
  IF blk.sum_cost # NaN /\ blk.sum_cost < Inf /\ blk.mem <= t.M /\ blk.cpu <= t.N
    THEN qinsert_at(btp_touch(st, node, c_n), node, c_n, blk)
    ELSE st

\* qmerge where the former cost of the block [barr, w] is not taken off
qmerge_blk_no_refund(t, node, barr, blk, m_cost, x) ==
  TBlock(blk.w,
         PlusNaN(Plus(blk.sum_cost, btp_block_cost(t, node, blk.cumsum, TRUE).cost), m_cost),
         btp_block_cost(t, node, blk.cumsum, TRUE).cumsum,
         blk.mem + t.memory[node], x.max_rate, x.cpu)

\* lines 98-107 of qmerge: the subcase blk of barr with node merged into its first block
qmerge_blk(t, node, barr, blk, m_cost, x) ==
  TBlock(blk.w,
         PlusNaN(Plus(blk.sum_cost, btp_block_cost(t, node, blk.cumsum, TRUE).cost
                                      - btp_block_cost(t, barr, blk.cumsum, FALSE).cost),
                 m_cost),
         btp_block_cost(t, node, blk.cumsum, TRUE).cumsum,
         blk.mem + t.memory[node], x.max_rate, x.cpu)

RECURSIVE qmerge_loop(_, _, _, _, _, _, _, _)
\* the loop of qmerge over the deque of barr, taken before the loop
qmerge_loop(t, st, node, c_n, barr, blks, i, m_cost) ==
  IF i > Len(blks) THEN st
  ELSE qmerge_loop(t,
                   IF blks[i].sum_cost < Inf
                     THEN qinsert(t, st, node, c_n,
                                  qmerge_blk(t, node, barr, blks[i], m_cost,
                                             btp_block_cpu(t, node, blks[i].max_rate,
                                                           blks[i].cpu)))
                     ELSE st,
                   node, c_n, barr, blks, i + 1, m_cost)

\* qmerge without the default subcase of lines 109-110
qmerge_default_none(st, node, c_n) == st

\* lines 109-110 of qmerge: the default subcase when the deque is still empty
qmerge_default(st, node, c_n) ==
  IF Len(st.DP[node].q[c_n]) = 0
    THEN [st EXCEPT !.DP[node].q[c_n] = <<TBlockDefault>>]
    ELSE st

\* lines 94-107 of qmerge, once DP[barr][c_b] exists
qmerge_from(t, st, node, c_n, barr, c_b, m_cost) ==
  qmerge_loop(t, st, node, c_n, barr, st.DP[barr].q[c_b], 1, m_cost)

\* qmerge(pred, node, c_n, barr, c_b, m_cost)
qmerge(t, st, node, c_n, barr, c_b, m_cost) ==
  qmerge_default(btp_touch(qmerge_from(t, btp_touch(st, barr, c_b), node, c_n, barr, c_b,
                                       m_cost),
                           node, c_n),
                 node, c_n)

\* qclear(node, c_n)
qclear(st, node, c_n) ==
  IF ~qmin_ok(st, node, c_n) THEN [st EXCEPT !.exc = "IndexError"]
  ELSE [st EXCEPT !.DP[node].q[c_n] = <<st.DP[node].q[c_n][1]>>]

\* the children of n in the order of sg.succ[n]
succ_list(t, n) == SortedSeq(succ(t, n))

\* sum(qmin(m, 0) for m in sg.succ[n] if m not in cpath)
btp_sum_m_cost(t, st, n) ==
  LET side == succ(t, n) \ cpath(t)
  IN SumSet([m \in side |-> qmin(st, m, 0)], side)

RECURSIVE btp_off_loop(_, _, _, _, _, _)
\* lines 134-136: merge the subcases of every child b of a node n off the cpath
btp_off_loop(t, st, n, bs, i, sum_m_cost) ==
  IF i > Len(bs) \/ st.exc # "" THEN st
  ELSE IF ~qmin_ok(st, bs[i], 0) THEN [st EXCEPT !.exc = "IndexError"]
  ELSE btp_off_loop(t, qclear(qmerge(t, st, n, 0, bs[i], 0,
                                     Minus(sum_m_cost, qmin(st, bs[i], 0))),
                              bs[i], 0),
                    n, bs, i + 1, sum_m_cost)

RECURSIVE btp_cut_loop(_, _, _, _, _, _, _, _)
\* lines 142-144: the subcases where the edge n -> m_cp is cut
btp_cut_loop(t, st, n, m_cp, c, hi, n_blk, sum_m_cost) ==
  IF c > hi \/ st.exc # "" THEN st
  ELSE IF ~qmin_ok(st, m_cp, c - 1) THEN [st EXCEPT !.exc = "IndexError"]
  ELSE btp_cut_loop(t, qinsert(t, st, n, c,
                               TBlock(n, Plus(Plus(n_blk.cost, sum_m_cost), qmin(st, m_cp, c - 1)),
                                      n_blk.cumsum, t.memory[n], t.rate[n], 1)),
                    n, m_cp, c + 1, hi, n_blk, sum_m_cost)

RECURSIVE btp_cp_loop(_, _, _, _, _, _, _)
\* lines 148-150: merge n into the subcases of m_cp, for every number of cuts
btp_cp_loop(t, st, n, m_cp, c, hi, sum_m_cost) ==
  IF c > hi \/ st.exc # "" THEN st
  ELSE btp_cp_loop(t, qclear(qmerge(t, st, n, c, m_cp, c, sum_m_cost), m_cp, c),
                   n, m_cp, c + 1, hi, sum_m_cost)

RECURSIVE btp_side_loop(_, _, _, _, _, _, _, _)
\* lines 154-155: merge n into the subcases of a child b off the cpath
btp_side_loop(t, st, n, m_cp, b, c, hi, m_res_cost) ==
  IF c > hi \/ st.exc # "" THEN st
  ELSE IF ~qmin_ok(st, m_cp, c - 1) THEN [st EXCEPT !.exc = "IndexError"]
  ELSE btp_side_loop(t, qmerge(t, st, n, c, b, 0, PlusNaN(m_res_cost, qmin(st, m_cp, c - 1))),
                     n, m_cp, b, c + 1, hi, m_res_cost)

\* line 156: qclear(b, 0) after the loop of a child b off the cpath
btp_side_done(st, b) == IF st.exc # "" THEN st ELSE qclear(st, b, 0)

\* lines 146-156 for one child b of n
btp_on_child(t, st, c_max, n, m_cp, b, sum_m_cost) ==
  IF b = m_cp
    THEN btp_cp_loop(t, st, n, m_cp, 0, Min(Len(st.DP[m_cp].keys), c_max + 1) - 1, sum_m_cost)
  ELSE IF ~qmin_ok(st, b, 0) THEN [st EXCEPT !.exc = "IndexError"]
  ELSE btp_side_done(btp_side_loop(t, st, n, m_cp, b, 1, Min(Len(st.DP[m_cp].keys), c_max),
                                   Minus(sum_m_cost, qmin(st, b, 0))),
                     b)

RECURSIVE btp_on_loop(_, _, _, _, _, _, _, _)
\* lines 146-156: for b in sg.succ[n], n on the cpath
btp_on_loop(t, st, c_max, n, m_cp, bs, i, sum_m_cost) ==
  IF i > Len(bs) \/ st.exc # "" THEN st
  ELSE btp_on_loop(t, btp_on_child(t, st, c_max, n, m_cp, bs[i], sum_m_cost),
                   c_max, n, m_cp, bs, i + 1, sum_m_cost)

\* lines 138-156: a node n on the cpath with its child m_cp on the cpath
btp_on_cpath(t, c_max, n, st, m_cp, n_blk, sum_m_cost) ==
  btp_on_loop(t, btp_cut_loop(t, st, n, m_cp, 1, Min(Len(st.DP[m_cp].keys), c_max),
                              n_blk, sum_m_cost),
              c_max, n, m_cp, succ_list(t, n), 1, sum_m_cost)

\* lines 125-156: a node n that is no leaf, given sum_m_cost
btp_inner(t, c_max, n, st, n_blk, sum_m_cost) ==
  IF n \notin cpath(t)
    THEN btp_off_loop(t, qinsert(t, st, n, 0,
                                 TBlock(n, Plus(n_blk.cost, sum_m_cost), n_blk.cumsum,
                                        t.memory[n], t.rate[n], 1)),
                      n, succ_list(t, n), 1, sum_m_cost)
    ELSE btp_on_cpath(t, c_max, n, st, CHOOSE m \in succ(t, n) : m \in cpath(t),
                      n_blk, sum_m_cost)

\* lines 118-155: one pair (p, n) of the post-order traversal
btp_node(t, c_max, n, st) ==
  IF succ(t, n) = {}
    THEN qinsert(t, st, n, 0,
                 TBlock(n, btp_block_cost(t, n, 0, TRUE).cost,
                        btp_block_cost(t, n, 0, TRUE).cumsum, t.memory[n], t.rate[n], 1))
  ELSE IF \E m \in succ(t, n) \ cpath(t) : ~qmin_ok(st, m, 0)
    THEN [st EXCEPT !.exc = "IndexError"]
  ELSE btp_inner(t, c_max, n, st, btp_block_cost(t, n, 0, TRUE), btp_sum_m_cost(t, st, n))

RECURSIVE btp_nodes(_, _, _, _, _)
\* line 118: for p, n in ipostorder_dfs(sg, PLATFORM)
btp_nodes(t, c_max, order, i, st) ==
  IF i > Len(order) \/ st.exc # "" THEN st
  ELSE btp_nodes(t, c_max, order, i + 1, btp_node(t, c_max, order[i][2], st))

\* the children of w scheduled with the cuts of their parent block
extract_new_same_c(t, c, w, prior) ==
  {<<m, IF m \in cpath(t) THEN c ELSE 0>> : m \in succ(t, w) \ {prior}}

\* lines 175-177: the children of w, but prior, as barrier nodes with their cuts
extract_new(t, c, w, prior) ==
  {<<m, IF m \in cpath(t) THEN c - 1 ELSE 0>> : m \in succ(t, w) \ {prior}}

RECURSIVE extract_walk(_, _, _, _, _, _)
\* lines 174-181 of extract_blocks: from the tail w of a block up to its head b;
\* e is [n, barr, p, exc], blk is built back to front
extract_walk(t, b, c, w, prior, x) ==
  IF prior = b \/ x.e.exc # "" THEN x
  \* sg.succ[None], n.remove(w) of a node already removed
  ELSE IF w = None \/ w \notin x.e.n THEN [x EXCEPT !.e.exc = "KeyError"]
  ELSE extract_walk(t, b, c, t.parent[w], w,
                    [blk |-> <<w>> \o x.blk,
                     e |-> [x.e EXCEPT !.barr = @ \cup extract_new(t, c, w, prior),
                                       !.n = @ \ {w}]])

RECURSIVE extract_loop(_, _, _)
\* lines 182-185: the block x.blk is stored, and on to the next barrier node
extract_next(t, st, x) == extract_loop(t, st, [x.e EXCEPT !.p = @ \cup {x.blk}])

\* lines 172-185 for the barrier node bc = (b, c)
extract_block(t, st, e, bc) ==
  IF ~qmin_ok(st, bc[1], bc[2]) THEN [e EXCEPT !.exc = "IndexError"]
  ELSE extract_next(t, st,
                    extract_walk(t, bc[1], bc[2], st.DP[bc[1]].q[bc[2]][1].w, None,
                                 [blk |-> <<>>, e |-> [e EXCEPT !.barr = @ \ {bc}]]))

\* lines 171-185 of extract_blocks: while len(n); barr.pop() takes any element and
\* the sorted result does not depend on which
extract_loop(t, st, e) ==
  IF e.n = {} \/ e.exc # "" THEN e
  ELSE IF e.barr = {} THEN [e EXCEPT !.exc = "KeyError"]
  ELSE extract_block(t, st, e, CHOOSE x \in e.barr : TRUE)

\* extract_blocks(sg, DP, root, cp_end, c_opt, full=True)
extract_blocks(t, st, c_opt) ==
  extract_loop(t, st, [n |-> 1..t.n, barr |-> {<<t.root, c_opt>>}, p |-> {}, exc |-> ""])

\* the state of btp_tree_partitioning after its loop over the nodes
btp_dp(t, c_max) ==
  btp_nodes(t, c_max, ipostorder_dfs(t, PLATFORM), 1,
            [DP |-> [v \in 1..t.n |->
                       [keys |-> <<0>>,
                        q |-> [c \in 0..c_max |-> IF c = 0 THEN <<TBlockDefault>> ELSE <<>>]]],
             exc |-> ""])

\* line 158: the blocks e that extract_blocks built, with cost and c_opt
btp_return(e, cost, c_opt) ==
  IF e.exc # "" THEN TreeRet(e.exc, {}, None, None) ELSE TreeRet("opt", e.p, cost, c_opt)

\* lines 157-160 with c_opt
btp_best(t, st, c_opt) ==
  IF qmin(st, t.root, c_opt) < Inf
    THEN btp_return(extract_blocks(t, st, c_opt), qmin(st, t.root, c_opt), c_opt)
    ELSE TreeRet("inf", {}, Inf, c_opt)

\* c_opt as the last key of DP[root], the largest number of cuts
btp_c_opt_last(st, root, keys) == keys[Len(keys)]

\* line 156: c_opt is the first key of DP[root] with the least qmin
btp_c_opt(st, root, keys) ==
  keys[1 + ArgMinFirst([i \in 0..(Len(keys) - 1) |-> qmin(st, root, keys[i + 1])], Len(keys))]

\* lines 156-160 once the loop over the nodes has ended in st
btp_result(t, st) ==
  IF st.exc # "" THEN TreeRet(st.exc, {}, None, None)
  ELSE IF \E i \in 1..Len(st.DP[t.root].keys) : ~qmin_ok(st, t.root, st.DP[t.root].keys[i])
    THEN TreeRet("IndexError", {}, None, None)
  ELSE btp_best(t, st, btp_c_opt(st, t.root, st.DP[t.root].keys))

\* btp_tree_partitioning(sg, root, M, N, L, cp_end, delay, unit)
btp_tree_partitioning(t) ==
  IF tree_c_max(t) < 0 THEN TreeRet("c_max", {}, None, tree_c_max(t))
  ELSE btp_result(t, btp_dp(t, tree_c_max(t)))

\* lines 172-182 with full = False for the first barrier node: no node is appended
\* to blk, and blk[-1] of the empty list is an IndexError
extract_first_not_full(x) ==
  IF x.e.exc # "" THEN x.e ELSE [x.e EXCEPT !.exc = "IndexError"]

\* extract_blocks(sg, DP, root, cp_end, c_opt, full=False)
extract_blocks_not_full(t, st, c_opt) ==
  IF ~qmin_ok(st, t.root, c_opt)
    THEN [n |-> 1..t.n, barr |-> {}, p |-> {}, exc |-> "IndexError"]
  ELSE extract_first_not_full(
         extract_walk(t, t.root, c_opt, st.DP[t.root].q[c_opt][1].w, None,
                      [blk |-> <<>>,
                       e |-> [n |-> 1..t.n, barr |-> {}, p |-> {}, exc |-> ""]]))

\* lines 157-160 with full = False
btp_best_not_full(t, st, c_opt) ==
  IF qmin(st, t.root, c_opt) < Inf
    THEN btp_return(extract_blocks_not_full(t, st, c_opt), qmin(st, t.root, c_opt), c_opt)
    ELSE TreeRet("inf", {}, Inf, c_opt)

\* lines 156-160 with full = False, after the loop over the nodes
btp_result_not_full(t, st) ==
  IF st.exc # "" THEN TreeRet(st.exc, {}, None, None)
  ELSE IF \E i \in 1..Len(st.DP[t.root].keys) : ~qmin_ok(st, t.root, st.DP[t.root].keys[i])
    THEN TreeRet("IndexError", {}, None, None)
  ELSE btp_best_not_full(t, st, btp_c_opt(st, t.root, st.DP[t.root].keys))

\* btp_tree_partitioning(sg, root, M, N, L, cp_end, delay, unit, full=False)
btp_tree_partitioning_not_full(t) ==
  IF tree_c_max(t) < 0 THEN TreeRet("c_max", {}, None, tree_c_max(t))
  ELSE btp_result_not_full(t, btp_dp(t, tree_c_max(t)))

(***************************************************************************)
(* Exhaustive tree search: alg/tree_greedy.py and alg/util.py              *)
(***************************************************************************)
RECURSIVE subtree_nodes(_, _, _)
\* the nodes isubtrees collects from b without passing a barrier node
subtree_nodes(t, barr, b) ==
  {b} \cup UNION {subtree_nodes(t, barr, v) : v \in succ(t, b) \ barr}

\* isubtrees(tree, barr): the sorted node list of the subtree of every barrier node
isubtrees(t, barr) == {SortedSeq(subtree_nodes(t, barr, b)) : b \in barr}

\* block_memory(...) > M or block_cpu(...) > N for one subtree
subtree_infeasible(t, blk) ==
  LET c == subchain_call(t, blk, Inf, 0, Len(blk) - 1)
  IN block_memory(c.memory, 0, Len(blk) - 1) > t.M \/ block_cpu(c.rate, 0, Len(blk) - 1) > t.N

\* ifeasible_chains(sg, root, M, N): under every branching node all the edges or
\* all but one are cut, an edge below a node with a single child is cut or not
ifeasible_chains(t) ==
  LET branching == {b \in 1..t.n : Cardinality(succ(t, b)) > 1}
      single_edges == {v \in 1..t.n : /\ t.parent[v] # PLATFORM
                                      /\ Cardinality(succ(t, t.parent[v])) = 1}
      branch_ok(X) == \A b \in branching :
                        Cardinality(succ(t, b) \cap X) >= Cardinality(succ(t, b)) - 1
      cuts == {X \in SUBSET (UNION {succ(t, b) : b \in branching} \cup single_edges) :
                 branch_ok(X)}
  IN {barr \in {{t.root} \cup X : X \in cuts} :
        \A blk \in isubtrees(t, barr) : ~subtree_infeasible(t, blk)}

RECURSIVE path_blocks_loop(_, _, _, _, _)
\* path_blocks(partition, path): current is the block of the previous path node
path_blocks_loop(partition, path, i, current, parts) ==
  IF i > Len(path) THEN parts
  ELSE LET hit == {blk \in partition : path[i] \in Range(blk)}
       IN IF hit = {} THEN path_blocks_loop(partition, path, i + 1, current, parts)
          ELSE LET blk == CHOOSE x \in hit : TRUE
               IN IF blk = current
                    THEN path_blocks_loop(partition, path, i + 1, current,
                                          [parts EXCEPT ![Len(parts)] = Append(@, path[i])])
                    ELSE path_blocks_loop(partition, path, i + 1, blk,
                                          Append(parts, <<path[i]>>))

path_blocks(partition, path) == path_blocks_loop(partition, path, 1, <<>>, <<>>)

\* sum_cost of greedy_tree_partitioning for the partition of one barr
tree_sum_cost(t, partition) ==
  SumSet([blk \in partition |->
            LET c == subchain_call(t, blk, Inf, 0, Len(blk) - 1)
            IN block_cost(c.runtime, c.rate, 0, Len(blk) - 1, t.unit)], partition)

\* the latency of the blocks cp_block of the critical path
tree_lat_of(t, cp_block) ==
  LET lat(blk) == LET c == subchain_call(t, blk, Inf, 0, Len(blk) - 1)
                  IN block_latency(c.runtime, 0, Len(blk) - 1, t.delay, 0, Len(blk) - 1)
  IN SumSeq(lat, cp_block) + (Len(cp_block) - 1) * t.delay

\* sum_lat of greedy_tree_partitioning for the partition of one barr
tree_sum_lat(t, partition) == tree_lat_of(t, path_blocks(partition, SortedSeq(cpath(t))))

\* best_res once best_cost is known: the partitions within L of that cost
greedy_best_res(t, ok, best_cost) ==
  [cost |-> best_cost, parts |-> {p \in ok : tree_sum_cost(t, p) = best_cost}]

\* lines 91-113 over ok, the partitions with sum_lat <= L
greedy_best(t, ok) ==
  IF ok = {} THEN [cost |-> Inf, parts |-> {{}}]
  ELSE greedy_best_res(t, ok, SetMin({tree_sum_cost(t, p) : p \in ok}))

\* greedy_tree_partitioning(sg, root, M, N, L, cp_end, delay, unit): the cost and
\* the partitions of best_res
greedy_tree_partitioning(t) ==
  greedy_best(t, {p \in {isubtrees(t, barr) : barr \in ifeasible_chains(t)} :
                    tree_sum_lat(t, p) <= t.L})

(***************************************************************************)
(* The calls: one input, the algorithms called on it one after the other   *)
(***************************************************************************)
VARIABLES
  chain,            \* the chain call: vectors, M, N, L, start, end, delay, unit
  tree,             \* the tree call: service graph, M, N, L, cp_end, delay, unit
  scp_res,          \* what chain_partitioning returned
  vec_res,          \* what vec_chain_partitioning returned
  greedy_res,       \* what greedy_chain_partitioning returned
  relax_res,        \* chain_partitioning again with one of M, N, L raised by one
  dp_res,           \* chain_partitioning with ret_dp = True and no latency bound
  mtp_res,          \* what mtp_tree_partitioning returned
  btp_res,          \* what btp_tree_partitioning returned
  tree_greedy_res,  \* what greedy_tree_partitioning returned
  mtp_relax_res,    \* mtp_tree_partitioning again with L raised by delay
  btp_relax_res,    \* btp_tree_partitioning again with L raised by delay
  mtp_barr_res,     \* mtp_tree_partitioning with only_barr = True
  btp_heads_res,    \* btp_tree_partitioning with full = False
  path_res,         \* chain_partitioning on the nodes of a tree that is a chain
  dfs               \* the generator ipostorder_dfs(tree, PLATFORM): pc, stack, yielded pairs

vars == <<chain, tree, scp_res, vec_res, greedy_res, relax_res, dp_res, mtp_res, btp_res,
          tree_greedy_res, mtp_relax_res, btp_relax_res, mtp_barr_res, btp_heads_res,
          path_res, dfs>>

chain_vars == <<scp_res, vec_res, greedy_res, relax_res, dp_res>>
tree_vars == <<mtp_res, btp_res, tree_greedy_res, mtp_relax_res, btp_relax_res,
               mtp_barr_res, btp_heads_res, path_res, dfs>>

\* a call that has not been made, an input that has not been given
NotCalled == [ret |-> "not called"]
NoInput == [n |-> 0]
\* the generator that has not been created
DfsIdle == [pc |-> "idle", stack |-> <<>>, out |-> <<>>]

\* the results before any call
NoneCalled ==
  /\ scp_res = NotCalled /\ vec_res = NotCalled /\ greedy_res = NotCalled
  /\ relax_res = NotCalled /\ dp_res = NotCalled
  /\ mtp_res = NotCalled /\ btp_res = NotCalled /\ tree_greedy_res = NotCalled
  /\ mtp_relax_res = NotCalled /\ btp_relax_res = NotCalled
  /\ mtp_barr_res = NotCalled /\ btp_heads_res = NotCalled /\ path_res = NotCalled
  /\ dfs = DfsIdle

\* the largest runtime, delay and unit of an input of n nodes
MaxRuntimeOf(n) == IF n <= ShortLen THEN MaxShortRuntime ELSE MaxRuntime
MaxDelayOf(n) == IF n <= ShortLen THEN MaxShortDelay ELSE MaxDelay
MaxUnitOf(n) == IF n <= ShortLen THEN MaxShortUnit ELSE MaxUnit

\* the memory vectors over the nodes S with at most MaxHeavy nodes of MaxMemory
Memories(S) == {mem \in [S -> 1..MaxMemory] :
                  Cardinality({i \in S : mem[i] = MaxMemory}) <= MaxHeavy}

\* a chain input: positive vectors of equal length, a latency subchain start..end,
\* L from below the lower bound sum(runtime[start : end + 1]) upwards
InitChain ==
  /\ \E n \in 1..MaxLen :
       \E rt \in [0..(n - 1) -> 1..MaxRuntimeOf(n)], mem \in Memories(0..(n - 1)),
          rate \in [0..(n - 1) -> 1..MaxRate], M \in 1..MaxM, N \in 1..MaxN,
          start \in 0..(n - 1), end \in 0..(n - 1), slack \in (-1)..MaxSlack,
          delay \in 1..MaxDelayOf(n), unit \in 1..MaxUnitOf(n) :
         /\ start <= end
         /\ chain = [n |-> n, runtime |-> rt, memory |-> mem, rate |-> rate,
                     M |-> M, N |-> N, L |-> SumRange(rt, start, end) + slack * delay,
                     start |-> start, end |-> end, delay |-> delay, unit |-> unit]
  /\ tree = NoInput
  /\ NoneCalled

\* the parents of the trees of n nodes under PLATFORM: node 1 is the root and the
\* ids grow along every path, as in the trees of misc/generator.py
Parents(n) == {p \in [1..n -> 0..(n - 1)] : \A v \in 1..n : IF v = 1 THEN p[v] = PLATFORM
                                                            ELSE p[v] \in 1..(v - 1)}

IsLeaf(p, n, v) == \A m \in 1..n : p[m] # v

\* a tree input: cp_end is a leaf, L from below the runtime of cpath upwards
InitTree ==
  /\ chain = NoInput
  /\ \E n \in 1..MaxNodes :
       \E p \in Parents(n), rt \in [1..n -> 1..MaxRuntimeOf(n)],
          mem \in Memories(1..n), rate \in [1..n -> 1..MaxRate],
          cp_end \in 1..n, M \in 1..MaxM, N \in 1..MaxN, slack \in (-1)..MaxSlack,
          delay \in 1..MaxDelayOf(n), unit \in 1..MaxUnitOf(n) :
         /\ IsLeaf(p, n, cp_end)
         /\ tree = [n |-> n, root |-> 1, parent |-> p, runtime |-> rt, memory |-> mem,
                    rate |-> rate, cp_end |-> cp_end, delay |-> delay, unit |-> unit,
                    M |-> M, N |-> N,
                    L |-> SumSet(rt, ibacktrack_chain([parent |-> p], 1, cp_end))
                            + slack * delay]
  /\ NoneCalled

Init == InitChain \/ InitTree

\* a tree input of DeepNodes nodes where L leaves room for DeepSlack cuts on cpath
InitDeep ==
  /\ chain = NoInput
  /\ \E p \in Parents(DeepNodes), rt \in [1..DeepNodes -> 1..MaxRuntimeOf(DeepNodes)],
        mem \in Memories(1..DeepNodes), rate \in [1..DeepNodes -> 1..MaxRate],
        cp_end \in 1..DeepNodes, M \in 1..MaxM, N \in 1..MaxN,
        delay \in 1..MaxDelayOf(DeepNodes), unit \in 1..MaxUnitOf(DeepNodes) :
       /\ IsLeaf(p, DeepNodes, cp_end)
       /\ tree = [n |-> DeepNodes, root |-> 1, parent |-> p, runtime |-> rt, memory |-> mem,
                  rate |-> rate, cp_end |-> cp_end, delay |-> delay, unit |-> unit,
                  M |-> M, N |-> N,
                  L |-> SumSet(rt, ibacktrack_chain([parent |-> p], 1, cp_end))
                          + DeepSlack * delay]
  /\ NoneCalled

\* a long chain input: no bound on the memory, one core, the latency bound on
\* the tail from start, L one delay above lat_min
InitLong ==
  /\ \E rt \in [0..(LongLen - 1) -> 1..MaxLongRuntime],
        rate \in [0..(LongLen - 1) -> 1..MaxLongRate],
        start \in 0..(LongLen - 1), end \in {LongLen - 1} :
       /\ chain = [n |-> LongLen, runtime |-> rt, memory |-> [i \in 0..(LongLen - 1) |-> 1],
                   rate |-> rate, M |-> LongLen, N |-> 1,
                   L |-> SumRange(rt, start, end) + 1,
                   start |-> start, end |-> end, delay |-> 1, unit |-> LongUnit]
  /\ tree = NoInput
  /\ NoneCalled

\* a long chain input with any latency subchain: equal rates, blocks of at most
\* LatM nodes, L from lat_min upwards
InitLat ==
  /\ \E rt \in [0..(LongLen - 1) -> 1..MaxLongRuntime],
        start \in 0..(LongLen - 1), end \in 0..(LongLen - 1),
        delay \in 1..MaxShortDelay, slack \in 0..LatSlack :
       /\ start <= end
       /\ chain = [n |-> LongLen, runtime |-> rt, memory |-> [i \in 0..(LongLen - 1) |-> 1],
                   rate |-> [i \in 0..(LongLen - 1) |-> 1], M |-> LatM, N |-> 1,
                   L |-> SumRange(rt, start, end) + slack * delay,
                   start |-> start, end |-> end, delay |-> delay, unit |-> LongUnit]
  /\ tree = NoInput
  /\ NoneCalled

\* a tree of up to DfsNodes nodes for the traversal alone: nodes of runtime,
\* memory and rate 1, cp_end the last node, which is a leaf
InitDfs ==
  /\ chain = NoInput
  /\ \E n \in 1..DfsNodes :
       \E p \in Parents(n) :
         tree = [n |-> n, root |-> 1, parent |-> p, runtime |-> [v \in 1..n |-> 1],
                 memory |-> [v \in 1..n |-> 1], rate |-> [v \in 1..n |-> 1],
                 cp_end |-> n, delay |-> 1, unit |-> 1, M |-> MaxM, N |-> MaxN, L |-> n]
  /\ NoneCalled

\* chain_partitioning(runtime, memory, rate, M, N, L, start, end, delay, unit)
CallChainPartitioning ==
  /\ chain # NoInput /\ scp_res = NotCalled
  /\ scp_res' = chain_partitioning(chain)
  /\ UNCHANGED <<chain, tree, vec_res, greedy_res, relax_res, dp_res, tree_vars>>

\* vec_chain_partitioning on the same arguments
CallVecChainPartitioning ==
  /\ scp_res # NotCalled /\ vec_res = NotCalled
  /\ vec_res' = vec_chain_partitioning(chain)
  /\ UNCHANGED <<chain, tree, scp_res, greedy_res, relax_res, dp_res, tree_vars>>

\* greedy_chain_partitioning on the same arguments
CallGreedyChainPartitioning ==
  /\ vec_res # NotCalled /\ greedy_res = NotCalled
  /\ greedy_res' = greedy_chain_partitioning(chain)
  /\ UNCHANGED <<chain, tree, scp_res, vec_res, relax_res, dp_res, tree_vars>>

\* the chain call with bound dim raised by one
Relaxed(c, dim) ==
  CASE dim = "M" -> [c EXCEPT !.M = @ + 1]
    [] dim = "N" -> [c EXCEPT !.N = @ + 1]
    [] dim = "L" -> [c EXCEPT !.L = @ + 1]

\* chain_partitioning on the same chain, start, end, delay, unit and a larger bound
CallRelaxedChainPartitioning ==
  /\ dp_res # NotCalled /\ relax_res = NotCalled
  /\ \E dim \in {"M", "N", "L"} :
       relax_res' = [dim |-> dim, res |-> chain_partitioning(Relaxed(chain, dim))]
  /\ UNCHANGED <<chain, tree, scp_res, vec_res, greedy_res, dp_res, tree_vars>>

\* the chain call as MTP makes it for a tail segment: no L, no start, no end
NoLatency(c) == [c EXCEPT !.L = Inf, !.start = 0, !.end = c.n - 1]

\* chain_partitioning(runtime, memory, rate, M, N, delay=delay, unit=unit, ret_dp=True)
CallChainPartitioningRetDp ==
  /\ greedy_res # NotCalled /\ dp_res = NotCalled
  /\ dp_res' = chain_partitioning_ret_dp(NoLatency(chain))
  /\ UNCHANGED <<chain, tree, scp_res, vec_res, greedy_res, relax_res, tree_vars>>

\* mtp_tree_partitioning on the same arguments
CallMtpTreePartitioning ==
  /\ btp_relax_res # NotCalled /\ mtp_res = NotCalled
  /\ mtp_res' = mtp_tree_partitioning(tree)
  /\ UNCHANGED <<chain, tree, dfs, chain_vars, btp_res, tree_greedy_res, mtp_relax_res,
                 btp_relax_res, mtp_barr_res, btp_heads_res, path_res>>

\* btp_tree_partitioning(sg, root, M, N, L, cp_end, delay, unit)
CallBtpTreePartitioning ==
  /\ tree # NoInput /\ btp_res = NotCalled
  /\ btp_res' = btp_tree_partitioning(tree)
  /\ UNCHANGED <<chain, tree, dfs, chain_vars, mtp_res, tree_greedy_res, mtp_relax_res,
                 btp_relax_res, mtp_barr_res, btp_heads_res, path_res>>

\* greedy_tree_partitioning on the same arguments
CallGreedyTreePartitioning ==
  /\ btp_res # NotCalled /\ tree_greedy_res = NotCalled
  /\ tree_greedy_res' = greedy_tree_partitioning(tree)
  /\ UNCHANGED <<chain, tree, dfs, chain_vars, mtp_res, btp_res, mtp_relax_res,
                 btp_relax_res, mtp_barr_res, btp_heads_res, path_res>>

\* mtp_tree_partitioning on the same tree with L raised by delay
CallRelaxedMtp ==
  /\ mtp_res # NotCalled /\ mtp_relax_res = NotCalled
  /\ mtp_relax_res' = mtp_tree_partitioning([tree EXCEPT !.L = @ + tree.delay])
  /\ UNCHANGED <<chain, tree, dfs, chain_vars, mtp_res, btp_res, tree_greedy_res,
                 btp_relax_res, mtp_barr_res, btp_heads_res, path_res>>

\* btp_tree_partitioning on the same tree with L raised by delay
CallRelaxedBtp ==
  /\ tree_greedy_res # NotCalled /\ btp_relax_res = NotCalled
  /\ btp_relax_res' = btp_tree_partitioning([tree EXCEPT !.L = @ + tree.delay])
  /\ UNCHANGED <<chain, tree, dfs, chain_vars, mtp_res, btp_res, tree_greedy_res,
                 mtp_relax_res, mtp_barr_res, btp_heads_res, path_res>>

\* mtp_tree_partitioning on the same arguments with only_barr = True
CallMtpOnlyBarr ==
  /\ mtp_relax_res # NotCalled /\ mtp_barr_res = NotCalled
  /\ mtp_barr_res' = mtp_tree_partitioning_only_barr(tree)
  /\ UNCHANGED <<chain, tree, dfs, chain_vars, mtp_res, btp_res, tree_greedy_res,
                 mtp_relax_res, btp_relax_res, btp_heads_res, path_res>>

\* btp_tree_partitioning on the same arguments with full = False
CallBtpNotFull ==
  /\ mtp_barr_res # NotCalled /\ btp_heads_res = NotCalled
  /\ btp_heads_res' = btp_tree_partitioning_not_full(tree)
  /\ UNCHANGED <<chain, tree, dfs, chain_vars, mtp_res, btp_res, tree_greedy_res,
                 mtp_relax_res, btp_relax_res, mtp_barr_res, path_res>>

\* the tree is the chain PLATFORM -> 1 -> ... -> n with cp_end = n
IsChainTree(t) == t.cp_end = t.n /\ \A v \in 1..t.n : t.parent[v] = v - 1

\* the chain call on the vectors of a tree that is a chain: start = 0, end = n - 1
PathCall(t) == subchain_call(t, [i \in 1..t.n |-> i], t.L, 0, t.n - 1)

\* chain_partitioning on the nodes of a tree that is a chain
CallChainOnPath ==
  /\ btp_heads_res # NotCalled /\ path_res = NotCalled
  /\ IsChainTree(tree)
  /\ path_res' = chain_partitioning(PathCall(tree))
  /\ UNCHANGED <<chain, tree, dfs, chain_vars, mtp_res, btp_res, tree_greedy_res,
                 mtp_relax_res, btp_relax_res, mtp_barr_res, btp_heads_res>>

\* for pred, n in ipostorder_dfs(sg, PLATFORM): the generator is created
DfsStart ==
  /\ tree # NoInput /\ dfs.pc = "idle"
  /\ dfs' = [pc |-> "run", out |-> <<>>,
             stack |-> <<[v |-> PLATFORM, it |-> SortedSeq(succ(tree, PLATFORM))]>>]
  /\ UNCHANGED <<chain, tree, chain_vars, mtp_res, btp_res, tree_greedy_res, mtp_relax_res,
                 btp_relax_res, mtp_barr_res, btp_heads_res, path_res>>

\* one turn of the while loop of the generator
DfsNext ==
  /\ dfs.pc = "run"
  /\ dfs' = dfs_step(tree, dfs)
  /\ UNCHANGED <<chain, tree, chain_vars, mtp_res, btp_res, tree_greedy_res, mtp_relax_res,
                 btp_relax_res, mtp_barr_res, btp_heads_res, path_res>>

NextDfs == DfsStart \/ DfsNext

NextChain ==
  \/ CallChainPartitioning
  \/ CallVecChainPartitioning
  \/ CallGreedyChainPartitioning
  \/ CallRelaxedChainPartitioning
  \/ CallChainPartitioningRetDp

NextTree ==
  \/ CallMtpTreePartitioning
  \/ CallBtpTreePartitioning
  \/ CallGreedyTreePartitioning
  \/ CallRelaxedMtp
  \/ CallRelaxedBtp
  \/ CallMtpOnlyBarr
  \/ CallBtpNotFull
  \/ CallChainOnPath

Next == NextChain \/ NextTree

\* a chain or a tree is given and the algorithms are called on it
Spec == Init /\ [][Next]_vars
\* the chain algorithms alone
SpecChain == InitChain /\ [][NextChain]_vars
\* the tree algorithms alone
SpecTree == InitTree /\ [][NextTree]_vars
\* chain_partitioning alone on the long chains
SpecLong == InitLong /\ [][CallChainPartitioning]_vars
\* the tree calls on the trees with room for two cuts on cpath
SpecDeep == InitDeep /\ [][NextTree]_vars

\* chain_partitioning on the long chains with a free latency subchain
SpecLat == InitLat /\ [][CallChainPartitioning]_vars
\* the traversal alone; the caller's for loop takes every step of the generator
SpecDfs == InitDfs /\ [][NextDfs]_vars /\ WF_vars(NextDfs)

(***************************************************************************)
(* Properties of the results                                               *)
(***************************************************************************)
\* a chain call returned barriers (not None): the result is feasible
ChainFeasible(r) == r.ret # "TypeError" /\ r.has_barr
\* the cost of a chain result, every infeasible outcome counted as math.inf
ChainCost(r) == IF ChainFeasible(r) THEN r.cost ELSE Inf

\* a tree call returned a partition with a finite cost
TreeFeasible(r) == r.ret = "opt" /\ r.cost < Inf
\* a tree call returned its marker of infeasibility: no blocks, cost None or inf
TreeInfeasible(r) ==
  \/ r.ret \in {"c_max", "no_barr", "inf"}
  \/ r.ret = "opt" /\ r.cost >= Inf

\* C1: the cost chain_partitioning returns is the least cost that
\* greedy_chain_partitioning finds over the partitions meeting M, N and L, and
\* chain_partitioning reports infeasibility exactly when the oracle finds none.
C1_ChainCostIsOracleMin ==
  greedy_res # NotCalled =>
    /\ ChainFeasible(scp_res) <=> greedy_res.cost < Inf
    /\ ChainFeasible(scp_res) => scp_res.cost = greedy_res.cost

\* C2: vec_chain_partitioning returns the same barrier list and the same optimal
\* cost as chain_partitioning and reports infeasibility on the same inputs.
C2_VecSameAsScalar ==
  vec_res # NotCalled =>
    /\ ChainFeasible(vec_res) <=> ChainFeasible(scp_res)
    /\ ChainFeasible(scp_res) =>
         /\ vec_res.barr = scp_res.barr
         /\ vec_res.cost = scp_res.cost

\* the result r of a tree algorithm against the result list of the oracle: the
\* blocks of r are one of the equi-optimal partitions and the costs are equal,
\* and r is the infeasibility marker exactly when the oracle found no partition
InOracleList(r) ==
  IF tree_greedy_res.cost >= Inf THEN TreeInfeasible(r)
  ELSE /\ TreeFeasible(r)
       /\ r.cost = tree_greedy_res.cost
       /\ r.part \in tree_greedy_res.parts

\* C3: the (partition, cost) of mtp_tree_partitioning is an element of the
\* equi-optimal list of greedy_tree_partitioning, and MTP reports infeasibility
\* exactly when the oracle finds no feasible partition.
C3_MtpInOracleList ==
  (mtp_res # NotCalled /\ tree_greedy_res # NotCalled) => InOracleList(mtp_res)

SameAsChain(r) ==
  IF ChainFeasible(path_res) THEN TreeFeasible(r) /\ r.cost = path_res.cost
  ELSE TreeInfeasible(r)

\* C5: on the tree PLATFORM -> 1 -> ... -> n with cp_end = n, MTP and BTP return
\* the cost (or the infeasibility) that chain_partitioning returns on the vectors
\* of the chain with start = 0, end = n - 1.
C5_ChainTreeSameAsChain ==
  path_res # NotCalled => SameAsChain(mtp_res) /\ SameAsChain(btp_res)

\* the blocks of the barrier list of a chain result meet M and N of the call c
ChainBlocksFit(c, r) ==
  ChainFeasible(r) =>
    \A i \in 1..Len(r.barr) :
      LET w == (IF i < Len(r.barr) THEN r.barr[i + 1] ELSE c.n) - 1
      IN /\ SumRange(c.memory, r.barr[i], w) <= c.M
         /\ block_cpu(c.rate, r.barr[i], w) <= c.N

\* the blocks of a tree result meet M and N of the call t; the rates of a block
\* are those of the edges entering its nodes, in the order of the path
TreeBlocksFit(t, r) ==
  TreeFeasible(r) =>
    \A blk \in r.part :
      /\ SumRange([i \in 1..Len(blk) |-> t.memory[blk[i]]], 1, Len(blk)) <= t.M
      /\ block_cpu([i \in 1..Len(blk) |-> t.rate[blk[i]]], 1, Len(blk)) <= t.N

\* C6: every block of every partition returned as feasible by chain_partitioning,
\* vec_chain_partitioning, mtp_tree_partitioning or btp_tree_partitioning has
\* summed memory <= M and CPU demand <= N.
C6_BlocksWithinMN ==
  /\ scp_res # NotCalled => ChainBlocksFit(chain, scp_res)
  /\ vec_res # NotCalled => ChainBlocksFit(chain, vec_res)
  /\ relax_res # NotCalled => ChainBlocksFit(Relaxed(chain, relax_res.dim), relax_res.res)
  /\ path_res # NotCalled => ChainBlocksFit(PathCall(tree), path_res)
  /\ mtp_res # NotCalled => TreeBlocksFit(tree, mtp_res)
  /\ btp_res # NotCalled => TreeBlocksFit(tree, btp_res)
  /\ mtp_relax_res # NotCalled => TreeBlocksFit(tree, mtp_relax_res)
  /\ btp_relax_res # NotCalled => TreeBlocksFit(tree, btp_relax_res)

\* C6 happens: MTP and BTP returned partitions of a tree of MaxNodes nodes, and a
\* block of several nodes of BTP takes all of M and all of N = MaxN
C6_Witness ==
  /\ mtp_res # NotCalled /\ TreeFeasible(mtp_res) /\ TreeFeasible(btp_res)
  /\ tree.n = MaxNodes /\ tree.N = MaxN
  /\ \E blk \in btp_res.part :
       /\ Len(blk) >= 2
       /\ SumRange([i \in 1..Len(blk) |-> tree.memory[blk[i]]], 1, Len(blk)) = tree.M
       /\ block_cpu([i \in 1..Len(blk) |-> tree.rate[blk[i]]], 1, Len(blk)) = tree.N

\* the barriers of a chain result that cut the latency subchain start..end
CutsInside(c, r) == {i \in 1..Len(r.barr) : c.start < r.barr[i] /\ r.barr[i] <= c.end}

\* the latency of the subchain start..end under the barriers of a chain result
ChainLatency(c, r) ==
  SumRange(c.runtime, c.start, c.end) + c.delay * Cardinality(CutsInside(c, r))

\* the block of a tree result that holds node v
BlockOf(r, v) == CHOOSE blk \in r.part : v \in Range(blk)

\* the edges of the critical path whose endpoints lie in different blocks
CutEdges(t, r) ==
  {v \in cpath(t) \ {t.root} : BlockOf(r, v) # BlockOf(r, t.parent[v])}

\* the latency of the critical path under the blocks of a tree result
TreeLatency(t, r) ==
  SumSet(t.runtime, cpath(t)) + t.delay * Cardinality(CutEdges(t, r))

\* C7: for every partition returned as feasible the latency of the constrained
\* path is within L: runtimes of start..end plus delay for every barrier b with
\* start < b <= end (chain DP); runtimes of the critical path plus delay for every
\* edge of it between two blocks (MTP, BTP).
C7_LatencyWithinL ==
  /\ (scp_res # NotCalled /\ ChainFeasible(scp_res)) => ChainLatency(chain, scp_res) <= chain.L
  /\ (vec_res # NotCalled /\ ChainFeasible(vec_res)) => ChainLatency(chain, vec_res) <= chain.L
  /\ (relax_res # NotCalled /\ ChainFeasible(relax_res.res)) =>
       ChainLatency(chain, relax_res.res) <= Relaxed(chain, relax_res.dim).L
  /\ (path_res # NotCalled /\ ChainFeasible(path_res)) =>
       ChainLatency(PathCall(tree), path_res) <= tree.L
  /\ (mtp_res # NotCalled /\ TreeFeasible(mtp_res)) => TreeLatency(tree, mtp_res) <= tree.L
  /\ (btp_res # NotCalled /\ TreeFeasible(btp_res)) => TreeLatency(tree, btp_res) <= tree.L
  /\ (mtp_relax_res # NotCalled /\ TreeFeasible(mtp_relax_res)) =>
       TreeLatency(tree, mtp_relax_res) <= tree.L + tree.delay
  /\ (btp_relax_res # NotCalled /\ TreeFeasible(btp_relax_res)) =>
       TreeLatency(tree, btp_relax_res) <= tree.L + tree.delay

\* C7 happens: both chain DPs returned barriers for a latency subchain that starts
\* after node 0, a barrier cuts the subchain and another lies outside it, and the
\* latency takes all of L
C7_Witness ==
  /\ vec_res # NotCalled /\ ChainFeasible(scp_res) /\ ChainFeasible(vec_res)
  /\ chain.start > 0
  /\ CutsInside(chain, scp_res) # {}
  /\ Len(scp_res.barr) > Cardinality(CutsInside(chain, scp_res)) + 1
  /\ ChainLatency(chain, scp_res) = chain.L

\* the barrier list of a chain result starts at 0, grows strictly, stays below n
ChainBarriersOrdered(n, r) ==
  ChainFeasible(r) =>
    /\ Len(r.barr) >= 1 /\ r.barr[1] = 0
    /\ \A i \in 1..(Len(r.barr) - 1) : r.barr[i] < r.barr[i + 1]
    /\ \A i \in 1..Len(r.barr) : r.barr[i] < n

\* the blocks of a tree result are pairwise disjoint, hold no node twice and
\* together hold exactly the nodes 1..n below PLATFORM
TreeBlocksPartition(t, r) ==
  TreeFeasible(r) =>
    /\ \A blk \in r.part : Cardinality(Range(blk)) = Len(blk)
    /\ \A b1, b2 \in r.part : b1 # b2 => Range(b1) \cap Range(b2) = {}
    /\ UNION {Range(blk) : blk \in r.part} = 1..t.n

\* C8: every feasible result is a partition of the input nodes: the barrier list
\* of the chain DP is strictly increasing, starts at 0 and stays below n; the
\* blocks of MTP and of BTP are pairwise disjoint and their union is the set of
\* the nodes other than PLATFORM.
C8_ResultIsPartition ==
  /\ scp_res # NotCalled => ChainBarriersOrdered(chain.n, scp_res)
  /\ relax_res # NotCalled => ChainBarriersOrdered(chain.n, relax_res.res)
  /\ path_res # NotCalled => ChainBarriersOrdered(tree.n, path_res)
  /\ mtp_res # NotCalled => TreeBlocksPartition(tree, mtp_res)
  /\ btp_res # NotCalled => TreeBlocksPartition(tree, btp_res)
  /\ mtp_relax_res # NotCalled => TreeBlocksPartition(tree, mtp_relax_res)
  /\ btp_relax_res # NotCalled => TreeBlocksPartition(tree, btp_relax_res)

\* C8 happens: on a branching tree of MaxNodes nodes MTP and BTP both returned
\* blocks, BTP at least two of them, one of several nodes
C8_Witness ==
  /\ mtp_res # NotCalled /\ TreeFeasible(mtp_res) /\ TreeFeasible(btp_res)
  /\ tree.n = MaxNodes /\ ~IsChainTree(tree)
  /\ Cardinality(btp_res.part) >= 2
  /\ \E blk \in btp_res.part : Len(blk) >= 2
  /\ \E blk \in mtp_res.part : Len(blk) >= 2

\* C9: for chain_partitioning on a fixed chain, start, end, delay and unit, a call
\* with one of M, N, L raised returns a cost that is not larger, an infeasible
\* outcome counted as infinity.
C9_ChainCostMonotone ==
  relax_res # NotCalled => ChainCost(relax_res.res) <= ChainCost(scp_res)

\* the results of a tree algorithm for L (base) and for L + delay (relaxed): the
\* relaxed call is not dearer, and where it reports infeasibility so does base
MonotoneInL(base, relaxed) ==
  /\ TreeInfeasible(relaxed) => TreeInfeasible(base)
  /\ TreeFeasible(base) => TreeFeasible(relaxed) /\ relaxed.cost <= base.cost

\* C10: for a fixed tree, M, N, delay and unit the cost that MTP and BTP return is
\* non-increasing in L: lowering L never lowers the cost, and where a value of L
\* is reported infeasible the smaller one is reported infeasible too.
C10_TreeCostMonotoneInL ==
  /\ btp_relax_res # NotCalled => MonotoneInL(btp_res, btp_relax_res)
  /\ mtp_relax_res # NotCalled => MonotoneInL(mtp_res, mtp_relax_res)

\* C10 happens: with L raised by delay both MTP and BTP return a cheaper partition
C10_Witness ==
  /\ mtp_relax_res # NotCalled
  /\ TreeFeasible(btp_res) /\ TreeFeasible(btp_relax_res)
  /\ btp_relax_res.cost < btp_res.cost
  /\ TreeFeasible(mtp_res) /\ TreeFeasible(mtp_relax_res)
  /\ mtp_relax_res.cost < mtp_res.cost

\* C11: when L is below sum(runtime[start : end + 1]), chain_partitioning and
\* vec_chain_partitioning return before any DP table is built: no barriers, a
\* null cost, and as third element that lower bound.
C11_ChainLatencyLowerBound ==
  /\ (scp_res # NotCalled /\ chain.L < SumRange(chain.runtime, chain.start, chain.end)) =>
       /\ scp_res.ret = "lat_min" /\ ~scp_res.has_barr /\ scp_res.cost = None
       /\ scp_res.lat = SumRange(chain.runtime, chain.start, chain.end)
  /\ (vec_res # NotCalled /\ chain.L < SumRange(chain.runtime, chain.start, chain.end)) =>
       /\ vec_res.ret = "lat_min" /\ ~vec_res.has_barr /\ vec_res.cost = None
       /\ vec_res.lat = SumRange(chain.runtime, chain.start, chain.end)

\* C11 happens: both DPs were called on a chain of MaxLen nodes with L below the
\* runtime of a latency subchain that is not the whole chain
C11_Witness ==
  /\ vec_res # NotCalled /\ chain.n = MaxLen
  /\ chain.start > 0 /\ chain.end < chain.n - 1 /\ chain.start < chain.end
  /\ chain.L < SumRange(chain.runtime, chain.start, chain.end)
  /\ scp_res.lat = 2 /\ vec_res.lat = 2

\* C12: when L is below the sum of the runtimes on the critical path, MTP and BTP
\* return no blocks, a null cost, and as third element that sum, the lower bound
\* of the latency.
C12_TreeLatencyLowerBound ==
  /\ (btp_res # NotCalled /\ tree.L < SumSet(tree.runtime, cpath(tree))) =>
       /\ btp_res.part = {} /\ btp_res.cost = None
       /\ btp_res.third = SumSet(tree.runtime, cpath(tree))
  /\ (mtp_res # NotCalled /\ tree.L < SumSet(tree.runtime, cpath(tree))) =>
       /\ mtp_res.part = {} /\ mtp_res.cost = None
       /\ mtp_res.third = SumSet(tree.runtime, cpath(tree))

\* C13: whenever L is at least the lower bound of the latency and
\* chain_partitioning finds nothing feasible (k_max < k_min in the preflight, or no
\* finite cost in the last DP row), it returns no barriers and the cost math.inf,
\* not null.
C13_InfeasibleCostIsInf ==
  (/\ scp_res # NotCalled
   /\ chain.L >= SumRange(chain.runtime, chain.start, chain.end)
   /\ ~ChainFeasible(scp_res)) => scp_res.cost = Inf

\* C14: for a chain of one node with memory[0] <= M and L >= runtime[0],
\* chain_partitioning returns the barriers [0], the cost
\* rate[0] * ceil(runtime[0] / unit) * unit and the latency runtime[0].
C14_SingleNodeChain ==
  (/\ scp_res # NotCalled /\ chain.n = 1
   /\ chain.memory[0] <= chain.M /\ chain.L >= chain.runtime[0]) =>
     /\ scp_res.has_barr /\ scp_res.barr = <<0>>
     /\ scp_res.cost
          = chain.rate[0] * (((chain.runtime[0] + chain.unit - 1) \div chain.unit) * chain.unit)
     /\ scp_res.lat = chain.runtime[0]

\* C14 happens: a single node whose runtime is no multiple of the unit, so that
\* the cost is rounded up, at a rate above one
C14_Witness ==
  /\ scp_res # NotCalled /\ chain.n = 1
  /\ chain.memory[0] <= chain.M /\ chain.L >= chain.runtime[0]
  /\ chain.runtime[0] = 3 /\ chain.unit = 2 /\ chain.rate[0] = 2
  /\ scp_res.cost = 8

\* a call ended in an unhandled exception
Raised(r) == r.ret \in {"TypeError", "ValueError", "AttributeError", "IndexError", "KeyError"}

\* C15: on a well-formed input each of chain_partitioning,
\* vec_chain_partitioning, mtp_tree_partitioning, btp_tree_partitioning returns a
\* partition or a marker of infeasibility and never ends in an unhandled failure.
C15_NoUnhandledFailure ==
  /\ scp_res # NotCalled => ~Raised(scp_res)
  /\ vec_res # NotCalled => ~Raised(vec_res)
  /\ mtp_res # NotCalled => ~Raised(mtp_res)
  /\ btp_res # NotCalled => ~Raised(btp_res)

\* C16: with the reduced output (MTP only_barr = True, BTP full = False) a call on
\* a feasible input returns the cost and the third element of the full call, and
\* its first element denotes the same partition: the heads of the blocks for MTP,
\* one entry for every block for BTP.
C16_ReducedOutputSame ==
  /\ (mtp_barr_res # NotCalled /\ TreeFeasible(mtp_res)) =>
       /\ mtp_barr_res.ret = "opt"
       /\ mtp_barr_res.cost = mtp_res.cost /\ mtp_barr_res.third = mtp_res.third
       /\ mtp_barr_res.part = {Head(blk) : blk \in mtp_res.part}
  /\ (btp_heads_res # NotCalled /\ TreeFeasible(btp_res)) =>
       /\ btp_heads_res.ret = "opt"
       /\ btp_heads_res.cost = btp_res.cost /\ btp_heads_res.third = btp_res.third
       /\ Cardinality(btp_heads_res.part) = Cardinality(btp_res.part)

\* C17: whenever chain_partitioning or vec_chain_partitioning returns the marker
\* of k_max < k_min, no partition of the chain meets M, N and the latency bound L
\* on start..end: the exhaustive search finds none.
C17_PreflightSound ==
  greedy_res # NotCalled =>
    /\ scp_res.ret = "k_min" => greedy_res.cost >= Inf
    /\ vec_res.ret = "k_min" => greedy_res.cost >= Inf

\* the barrier lists of the chain 0..n-1 with k + 1 blocks
BarrierLists(n, k) ==
  {SortedSeq({0} \cup cut) : cut \in {x \in SUBSET (1..(n - 1)) : Cardinality(x) = k}}

\* the costs of the partitions of chain c into k + 1 blocks that all meet M and N
ExactCosts(c, k) ==
  {chain_sum_cost(c, barr) :
     barr \in {b \in BarrierLists(c.n, k) :
                 ChainBlocksFit(c, [ret |-> "opt", has_barr |-> TRUE, barr |-> b])}}

\* the least cost of a partition into k + 1 blocks meeting M and N, math.inf if none
ExactMinCost(c, k) == IF ExactCosts(c, k) = {} THEN Inf ELSE SetMin(ExactCosts(c, k))

\* C18: called with ret_dp = True and no latency bound, chain_partitioning returns
\* a table whose cell DP[n-1][k] holds for every k the least cost over the
\* partitions of the whole chain into exactly k + 1 blocks meeting M and N, or
\* math.inf if there is none.
C18_RetDpRowIsExact ==
  (dp_res # NotCalled /\ dp_res.has_dp) =>
    \A k \in 0..(chain.n - 1) :
      dp_res.DP[chain.n - 1][k].cost = ExactMinCost(NoLatency(chain), k)

\* C18 happens: the table of a chain of MaxLen nodes has a cell without partition
\* and two cells of different finite costs in its last row
C18_Witness ==
  /\ dp_res # NotCalled /\ dp_res.has_dp /\ chain.n = MaxLen
  /\ \E k \in 0..(chain.n - 1) : dp_res.DP[chain.n - 1][k].cost = Inf
  /\ \E j, k \in 0..(chain.n - 1) :
       /\ dp_res.DP[chain.n - 1][j].cost < dp_res.DP[chain.n - 1][k].cost
       /\ dp_res.DP[chain.n - 1][k].cost < Inf

RECURSIVE dp_k_loop_unpruned(_, _, _, _, _)
\* the recurrence of row w without the early stop: every k from 1 to w
dp_k_loop_unpruned(c, DP, w, k, row) ==
  IF k > w THEN row
  ELSE dp_k_loop_unpruned(c, DP, w, k + 1,
                          [row EXCEPT ![k] = dp_b_loop(c, DP, w, k, w, row[k])])

RECURSIVE dp_w_loop_unpruned(_, _, _)
\* the rows 1 to n - 1 without the early stop
dp_w_loop_unpruned(c, DP, w) ==
  IF w >= c.n THEN DP
  ELSE dp_w_loop_unpruned(c, [DP EXCEPT ![w] = dp_k_loop_unpruned(c, DP, w, 1, DP[w])],
                          w + 1)

\* the DP matrix of the same recurrence without the early stop
chain_dp_unpruned(c) ==
  dp_w_loop_unpruned(c, dp_init(c, [w \in 0..(c.n - 1) |-> [k \in 0..w |-> StateDefault]], 0),
                     1)

\* the cells of two DP matrices hold the same costs and latencies
SameCells(P, U, n) ==
  \A w \in 0..(n - 1) : \A k \in 0..w :
    P[w][k].cost = U[w][k].cost /\ P[w][k].lat = U[w][k].lat

\* C19: leaving the k loop of row w at the first k with DP[w][k-1].lat finite and
\* DP[w][k].lat infinite never changes the result: the cells the same recurrence
\* computes without the early stop are as infeasible as the cells left out, and
\* the cost and the barriers returned are those of the unpruned DP.
C19_PruningKeepsResult ==
  (scp_res # NotCalled /\ scp_res.ret \in {"opt", "inf"}) =>
    /\ SameCells(chain_dp(chain), chain_dp_unpruned(chain), chain.n)
    /\ scp_res = chain_result(chain_dp_unpruned(chain), chain.n)

RECURSIVE vec_left_cache(_, _)
\* lines 99-102: the cache after the calls of the row-0 initialisation for the
\* nodes 0..w
vec_left_cache(c, w) ==
  IF w < 0 THEN VecCache(0, 0, 0, 0, 0)
  ELSE vec_block_latency_cache(c, 0, w,
         vec_block_cost_cache(c, w,
           vec_block_cpu_cache(c, w, vec_block_memory(c, w, vec_left_cache(c, w - 1)), TRUE)),
         TRUE)

RECURSIVE vec_right_cache(_, _, _)
\* lines 104-110: the cache of row w after the calls for the nodes w down to b
vec_right_cache(c, w, b) ==
  IF b > w THEN VecCache(0, 0, 0, 0, 0)
  ELSE vec_block_latency_cache(c, b, w,
         vec_block_cost_cache(c, b,
           vec_block_cpu_cache(c, b, vec_block_memory(c, b, vec_right_cache(c, w, b + 1)),
                               FALSE)),
         FALSE)

\* block [b, w] passes the tests of M and N that vec_chain_partitioning makes
VecWithin(c, cache, from_left) == cache.mem <= c.M /\ vec_block_cpu(cache, from_left) <= c.N

\* the quantities of block [b, w] that vec_chain_partitioning takes from cache are
\* those of the block functions: memory and CPU, which are compared with M and N,
\* and where the block passes, cost and latency, which are stored
VecBlockExact(c, b, w, cache, from_left) ==
  /\ cache.mem = block_memory(c.memory, b, w)
  /\ vec_block_cpu(cache, from_left) = block_cpu(c.rate, b, w)
  /\ VecWithin(c, cache, from_left) =>
       /\ vec_block_cost(c, IF from_left THEN w ELSE b, cache, from_left)
            = block_cost(c.runtime, c.rate, b, w, c.unit)
       /\ vec_block_latency(c, b, w, cache, from_left)
            = block_latency(c.runtime, b, w, c.delay, c.start, c.end)

\* C20: in vec_chain_partitioning every block quantity kept incrementally equals
\* the value of the matching block function: for block [0, w] in the row-0
\* initialisation and for block [b, w] in the inner loop, for every w and b that
\* the loops visit.
C20_VecQuantitiesExact ==
  (vec_res # NotCalled /\ vec_res.ret \in {"opt", "inf"}) =>
    /\ \A w \in 0..(chain.n - 1) :
         (\A v \in 0..(w - 1) : VecWithin(chain, vec_left_cache(chain, v), TRUE)) =>
           VecBlockExact(chain, 0, w, vec_left_cache(chain, w), TRUE)
    /\ \A w \in 1..(chain.n - 1) : \A b \in 1..w :
         (\A v \in (b + 1)..w : VecWithin(chain, vec_right_cache(chain, w, v), FALSE)) =>
           VecBlockExact(chain, b, w, vec_right_cache(chain, w, b), FALSE)

\* lines 62-146: the state of the loop over the nodes once the first i pairs of the
\* post-order traversal have been handled
mtp_prefix(t, i) ==
  mtp_nodes(t, tree_c_max(t), SubSeq(ipostorder_dfs(t, PLATFORM), 1, i), 1,
            MtpState([v \in 1..t.n |-> [c \in 0..tree_c_max(t) |-> TPartDefault]],
                     FALSE, TreeRet("", {}, None, None)))

\* the i-th pair (pred, n) comes to line 145: it passes the tests of lines 65 and
\* 68, and no return or exception ends the call before
mtp_at_line_145(t, i, pred, n) ==
  /\ ~(Cardinality(succ(t, pred)) <= 1 /\ pred # PLATFORM)
  /\ n \notin label(t, t.root)
  /\ ~mtp_prefix(t, i).done

\* both DP[n][0] and DP[n][c_max] have infinite cost
mtp_both_inf(row, c_max) == row[0].cost = Inf /\ row[c_max].cost = Inf

\* the i-th pair of the traversal comes to line 145 with DP[n][0] and DP[n][c_max]
\* both of infinite cost
MtpNoSubcase(t, i) ==
  /\ mtp_at_line_145(t, i, ipostorder_dfs(t, PLATFORM)[i][1], ipostorder_dfs(t, PLATFORM)[i][2])
  /\ mtp_both_inf(mtp_prefix(t, i).DP[ipostorder_dfs(t, PLATFORM)[i][2]], tree_c_max(t))

\* C21: when the processing of a branching node n (or of the root) leaves both
\* DP[n][0] and DP[n][c_max] with infinite cost, mtp_tree_partitioning reports the
\* tree infeasible: no blocks, infinite cost, and None as third element.
C21_NoSubcaseReportsInfeasible ==
  (mtp_res # NotCalled /\ tree_c_max(tree) >= 0) =>
    \A i \in 1..tree.n :
      MtpNoSubcase(tree, i) =>
        /\ mtp_res.ret \notin {"TypeError", "AttributeError", "ValueError"}
        /\ mtp_res.part = {}
        /\ mtp_res.cost = Inf
        /\ mtp_res.third = None

\* the state of the loop of line 74 over the subchains of the node n of the i-th
\* pair, before its j-th subchain
mtp_before(t, i, n, j) ==
  mtp_subchains(t, tree_c_max(t), n, SubSeq(isubchains(t, n, t.cp_end), 1, j - 1), 1,
                mtp_prefix(t, i - 1))

RECURSIVE mtp_head_loop_fresh(_, _, _, _, _, _, _, _, _)
\* lines 141-143 for one c_head, with r what a call of partition under L_head
\* returned; no candidate when the call found no barriers
mtp_head_step_fresh(t, sc, c_max, k, c_head, m_part, sum_m_barr, sum_m_cost, row, r) ==
  mtp_head_loop_fresh(t, sc, c_max, k, c_head - 1, m_part, sum_m_barr, sum_m_cost,
    IF ~r.has_barr THEN row
    ELSE mtp_store(row, k + c_head + 1,
                   TPart(barr_nodes(sc.head \o sc.tail, r.barr) \cup m_part.barr
                           \cup sum_m_barr,
                         Plus(Plus(r.cost, m_part.cost), sum_m_cost))))

\* lines 127-143 without c_cache and without the break: every c_head from
\* c_max - k - 1 down to 0 with a call of partition of its own
mtp_head_loop_fresh(t, sc, c_max, k, c_head, m_part, sum_m_barr, sum_m_cost, row) ==
  IF c_head < 0 THEN row
  ELSE mtp_head_step_fresh(t, sc, c_max, k, c_head, m_part, sum_m_barr, sum_m_cost, row,
         chain_partitioning(subchain_call(t, sc.head \o sc.tail,
                                          SumSet(t.runtime, Range(sc.head))
                                            + c_head * t.delay,
                                          0, Len(sc.head) - 1)))

RECURSIVE mtp_k_loop_every(_, _, _, _, _, _, _, _)
\* lines 118-143 without the test of line 124: every k from 0 to c_max - 1
mtp_k_loop_every(t, sc, c_max, k, m_list, sum_m_barr, sum_m_cost, row) ==
  IF k >= c_max THEN row
  ELSE mtp_k_loop_every(t, sc, c_max, k + 1, m_list, sum_m_barr, sum_m_cost,
                        mtp_head_loop_fresh(t, sc, c_max, k, c_max - k - 1, m_list[k],
                                            sum_m_barr, sum_m_cost, row))

\* the successor on cpath of the last node of the head part (line 115)
mtp_m_cp(t, sc) == CHOOSE m \in succ(t, sc.head[Len(sc.head)]) : m \in cpath(t)

\* what lines 118-143 leave for the subchain sc of node n from the state st:
\* [row, cache, exc]
mtp_straddle_loops(t, st, c_max, n, sc) ==
  mtp_k_loop(t, sc, c_max, 0, st.DP[mtp_m_cp(t, sc)],
             UNION {st.DP[m][0].barr : m \in mtp_side(t, sc)},
             SumSet([m \in mtp_side(t, sc) |-> st.DP[m][0].cost], mtp_side(t, sc)),
             [row |-> st.DP[n],
              cache |-> [c \in 0..c_max |-> [has |-> FALSE, barr |-> <<>>, cost |-> 0]],
              exc |-> FALSE])

\* the same with every pair (k, c_head) evaluated by a call of its own
mtp_straddle_every(t, st, c_max, n, sc) ==
  mtp_k_loop_every(t, sc, c_max, 0, st.DP[mtp_m_cp(t, sc)],
                   UNION {st.DP[m][0].barr : m \in mtp_side(t, sc)},
                   SumSet([m \in mtp_side(t, sc) |-> st.DP[m][0].cost], mtp_side(t, sc)),
                   st.DP[n])

\* the j-th subchain sc of the node n of the pair (pred, n) comes to the straddling
\* case of line 114 in the state st with costs that are numbers
MtpStraddles(t, pred, n, sc, st) ==
  /\ ~(Cardinality(succ(t, pred)) <= 1 /\ pred # PLATFORM)
  /\ n \notin label(t, t.root)
  /\ n \in cpath(t)
  /\ sc.tail # <<>> /\ sc.tail[Len(sc.tail)] # t.cp_end
  /\ ~st.done
  /\ \A m \in mtp_side(t, sc) : st.DP[m][0].cost # None
  /\ \A k \in DOMAIN st.DP[mtp_m_cp(t, sc)] : st.DP[mtp_m_cp(t, sc)][k].cost # None

\* two rows of DP hold the same costs
SameCosts(row, other, c_max) == \A c \in 0..c_max : row[c].cost = other[c].cost

\* the loops of lines 118-143 and the loops over every pair (k, c_head) leave the
\* same costs for the subchain sc of node n from the state st
MtpSameCosts(t, pred, n, sc, st) ==
  MtpStraddles(t, pred, n, sc, st) =>
    SameCosts(mtp_straddle_loops(t, st, tree_c_max(t), n, sc).row,
              mtp_straddle_every(t, st, tree_c_max(t), n, sc), tree_c_max(t))

\* C22: in the straddling case, skipping every k > 0 with DP[m_cp][k-1].cost <=
\* DP[m_cp][k].cost and taking (barriers, cost) of a c_head from c_cache leaves in
\* DP[n] the costs that a call of partition for every pair (k, c_head) leaves.
C22_StraddlePruningKeepsCosts ==
  (mtp_res # NotCalled /\ tree_c_max(tree) >= 0) =>
    \A i \in 1..tree.n :
      \A j \in 1..Len(isubchains(tree, ipostorder_dfs(tree, PLATFORM)[i][2], tree.cp_end)) :
        MtpSameCosts(tree, ipostorder_dfs(tree, PLATFORM)[i][1],
                     ipostorder_dfs(tree, PLATFORM)[i][2],
                     isubchains(tree, ipostorder_dfs(tree, PLATFORM)[i][2], tree.cp_end)[j],
                     mtp_before(tree, i, ipostorder_dfs(tree, PLATFORM)[i][2], j))

\* a k > 0 of the subtree of m_cp is skipped by line 124
MtpSkips(m_list, c_max) ==
  \E k \in 1..(c_max - 1) : m_list[k].cost < Inf /\ m_list[k - 1].cost <= m_list[k].cost

\* the call r for the first c_head of k = 0 fills c_cache for a smaller c_head
MtpCacheHit(m_list, c_max, r) ==
  /\ c_max >= 2 /\ m_list[0].cost < Inf
  /\ r.has_barr /\ Len(r.barr) - 1 < c_max - 1

\* the subchain sc of node n comes to the straddling case, line 124 skips a k,
\* a c_head is served from c_cache, and a finite cost is stored
MtpPrunes(t, pred, n, sc, st) ==
  /\ MtpStraddles(t, pred, n, sc, st)
  /\ MtpSkips(st.DP[mtp_m_cp(t, sc)], tree_c_max(t))
  /\ MtpCacheHit(st.DP[mtp_m_cp(t, sc)], tree_c_max(t),
                 chain_partitioning(subchain_call(t, sc.head \o sc.tail,
                   SumSet(t.runtime, Range(sc.head)) + (tree_c_max(t) - 1) * t.delay,
                   0, Len(sc.head) - 1)))
  /\ \E c \in 1..tree_c_max(t) :
       mtp_straddle_loops(t, st, tree_c_max(t), n, sc).row[c].cost < Inf

\* a run of MTP that returns a partition reaches a straddling subchain where line
\* 124 skips a k and where a c_head is served from c_cache
C22_Witness ==
  /\ mtp_res # NotCalled /\ mtp_res.ret = "opt" /\ tree_c_max(tree) >= 2
  /\ \E i \in 1..tree.n :
       \E j \in 1..Len(isubchains(tree, ipostorder_dfs(tree, PLATFORM)[i][2], tree.cp_end)) :
         MtpPrunes(tree, ipostorder_dfs(tree, PLATFORM)[i][1],
                   ipostorder_dfs(tree, PLATFORM)[i][2],
                   isubchains(tree, ipostorder_dfs(tree, PLATFORM)[i][2], tree.cp_end)[j],
                   mtp_before(tree, i, ipostorder_dfs(tree, PLATFORM)[i][2], j))

\* lines 62-155: the state of the call once the first i pairs of the post-order
\* traversal have been handled
btp_prefix(t, i) ==
  btp_nodes(t, tree_c_max(t), SubSeq(ipostorder_dfs(t, PLATFORM), 1, i), 1,
            [DP |-> [v \in 1..t.n |->
                       [keys |-> <<0>>,
                        q |-> [c \in 0..tree_c_max(t) |->
                                 IF c = 0 THEN <<TBlockDefault>> ELSE <<>>]]],
             exc |-> ""])

\* a state st of the call between two queue operations; clear is <<node, c>> when
\* the next operation is qclear(node, c), else <<>>
BtpEvent(st, clear) == [st |-> st, clear |-> clear]

\* the states of one call of qmerge from st: after every subcase of the loop of
\* lines 94-107, and after lines 109-110, where clear tells what comes next
BtpQmergeEvents(t, st, node, c_n, barr, c_b, m_cost, clear) ==
  {BtpEvent(qmerge_loop(t, btp_touch(st, barr, c_b), node, c_n, barr,
                        SubSeq(btp_touch(st, barr, c_b).DP[barr].q[c_b], 1, m), 1, m_cost),
            <<>>) : m \in 0..Len(btp_touch(st, barr, c_b).DP[barr].q[c_b])}
    \cup {BtpEvent(qmerge(t, st, node, c_n, barr, c_b, m_cost), clear)}

\* lines 133-135 for the child b of a node n off the cpath, from the state s
BtpOffChildEvents(t, s, n, b, sum_m_cost) ==
  IF s.exc # "" \/ ~qmin_ok(s, b, 0) THEN {}
  ELSE BtpQmergeEvents(t, s, n, 0, b, 0, Minus(sum_m_cost, qmin(s, b, 0)), <<b, 0>>)

\* lines 129-135 for a node n off the cpath: s0 is the state after line 131
BtpOffEvents(t, s0, n, bs, sum_m_cost) ==
  {BtpEvent(s0, <<>>)}
    \cup UNION {BtpOffChildEvents(t, btp_off_loop(t, s0, n, SubSeq(bs, 1, j - 1), 1,
                                                  sum_m_cost),
                                  n, bs[j], sum_m_cost) : j \in 1..Len(bs)}
    \cup {BtpEvent(btp_off_loop(t, s0, n, SubSeq(bs, 1, j), 1, sum_m_cost), <<>>) :
            j \in 1..Len(bs)}

\* lines 147-149 for the child m_cp of n, from the state s
BtpCpEvents(t, c_max, s, n, m_cp, sum_m_cost) ==
  UNION {IF btp_cp_loop(t, s, n, m_cp, 0, h - 1, sum_m_cost).exc # "" THEN {}
         ELSE BtpQmergeEvents(t, btp_cp_loop(t, s, n, m_cp, 0, h - 1, sum_m_cost),
                              n, h, m_cp, h, sum_m_cost, <<m_cp, h>>)
                \cup {BtpEvent(btp_cp_loop(t, s, n, m_cp, 0, h, sum_m_cost), <<>>)} :
         h \in 0..(Min(Len(s.DP[m_cp].keys), c_max + 1) - 1)}

\* line 154 for one c = h, from the state sh that the loop left before
BtpSideStep(t, sh, n, m_cp, b, h, hi, m_res_cost) ==
  IF sh.exc # "" \/ ~qmin_ok(sh, m_cp, h - 1) THEN {}
  ELSE BtpQmergeEvents(t, sh, n, h, b, 0, PlusNaN(m_res_cost, qmin(sh, m_cp, h - 1)),
                       IF h = hi THEN <<b, 0>> ELSE <<>>)

\* lines 151-155 for a child b of n off the cpath, from the state s
BtpSideEvents(t, s, n, m_cp, b, hi, m_res_cost) ==
  {BtpEvent(s, IF hi = 0 THEN <<b, 0>> ELSE <<>>)}
    \cup UNION {BtpSideStep(t, btp_side_loop(t, s, n, m_cp, b, 1, h - 1, m_res_cost),
                            n, m_cp, b, h, hi, m_res_cost) : h \in 1..hi}

\* lines 146-155 for the child b of n, from the state s
BtpOnChildEvents(t, c_max, s, n, m_cp, b, sum_m_cost) ==
  IF s.exc # "" THEN {}
  ELSE IF b = m_cp THEN BtpCpEvents(t, c_max, s, n, m_cp, sum_m_cost)
  ELSE IF ~qmin_ok(s, b, 0) THEN {}
  ELSE BtpSideEvents(t, s, n, m_cp, b, Min(Len(s.DP[m_cp].keys), c_max),
                     Minus(sum_m_cost, qmin(s, b, 0)))

\* lines 138-155 for a node n on the cpath, from the state st
BtpOnEvents(t, c_max, st, n, m_cp, bs, n_blk, sum_m_cost) ==
  {BtpEvent(btp_cut_loop(t, st, n, m_cp, 1, h, n_blk, sum_m_cost), <<>>) :
     h \in 0..Min(Len(st.DP[m_cp].keys), c_max)}
    \cup UNION {BtpOnChildEvents(t, c_max,
                  btp_on_loop(t, btp_cut_loop(t, st, n, m_cp, 1,
                                              Min(Len(st.DP[m_cp].keys), c_max),
                                              n_blk, sum_m_cost),
                              c_max, n, m_cp, SubSeq(bs, 1, j - 1), 1, sum_m_cost),
                  n, m_cp, bs[j], sum_m_cost) : j \in 1..Len(bs)}

\* lines 126-155 for a node n that is no leaf, given n_blk and sum_m_cost
BtpInnerEvents(t, c_max, st, n, n_blk, sum_m_cost) ==
  IF n \notin cpath(t)
    THEN BtpOffEvents(t, qinsert(t, st, n, 0,
                                 TBlock(n, Plus(n_blk.cost, sum_m_cost), n_blk.cumsum,
                                        t.memory[n], t.rate[n], 1)),
                      n, succ_list(t, n), sum_m_cost)
    ELSE BtpOnEvents(t, c_max, st, n, CHOOSE m \in succ(t, n) : m \in cpath(t),
                     succ_list(t, n), n_blk, sum_m_cost)

\* the states between the queue operations of lines 119-155 for the node n, from
\* the state st, and the state after the node
BtpNodeEvents(t, c_max, st, n) ==
  {BtpEvent(st, <<>>), BtpEvent(btp_node(t, c_max, n, st), <<>>)}
    \cup (IF st.exc # "" \/ succ(t, n) = {}
            \/ (\E m \in succ(t, n) \ cpath(t) : ~qmin_ok(st, m, 0))
          THEN {}
          ELSE BtpInnerEvents(t, c_max, st, n, btp_block_cost(t, n, 0, TRUE),
                              btp_sum_m_cost(t, st, n)))

\* every state of a call of btp_tree_partitioning between two queue operations
BtpEvents(t) ==
  UNION {BtpNodeEvents(t, tree_c_max(t), btp_prefix(t, i - 1),
                       ipostorder_dfs(t, PLATFORM)[i][2]) : i \in 1..t.n}

\* the queues of a state
BtpQueues(t, st) == {st.DP[v].q[c] : v \in 1..t.n, c \in 0..tree_c_max(t)}

\* the first element of the queue q is one of its cheapest
HeadIsMin(q) == \A i \in 1..Len(q) : q[1].sum_cost <= q[i].sum_cost

\* qclear(node, c) from st leaves the first element alone in the queue, and no
\* other queue is changed
ClearKeepsHead(st, node, c) ==
  /\ qclear(st, node, c).exc = ""
  /\ qclear(st, node, c) = [st EXCEPT !.DP[node].q[c] = <<st.DP[node].q[c][1]>>]
  /\ qmin(qclear(st, node, c), node, c) = qmin(st, node, c)

\* C23: between any two queue operations of a BTP run the first element of every
\* queue DP[node][c] that is not empty has the least sum_cost of the queue, and
\* qclear leaves that first element, and so qmin, as it was.
C23_QueueHeadIsMin ==
  (btp_res # NotCalled /\ tree_greedy_res = NotCalled /\ tree_c_max(tree) >= 0) =>
    \A e \in BtpEvents(tree) :
      /\ \A q \in BtpQueues(tree, e.st) : HeadIsMin(q)
      /\ (e.clear # <<>> /\ e.st.exc = "") => ClearKeepsHead(e.st, e.clear[1], e.clear[2])

\* a BTP run where a queue holds two subcases of different finite cost, where a
\* subcase dearer than the first one is at the right, and where qclear drops one
C23_Witness ==
  /\ btp_res # NotCalled /\ btp_res.ret = "opt" /\ tree_greedy_res = NotCalled
  /\ \E e \in BtpEvents(tree) :
       /\ e.clear # <<>>
       /\ \E i \in 2..Len(e.st.DP[e.clear[1]].q[e.clear[2]]) :
            /\ e.st.DP[e.clear[1]].q[e.clear[2]][i].sum_cost < Inf
            /\ e.st.DP[e.clear[1]].q[e.clear[2]][1].sum_cost
                 < e.st.DP[e.clear[1]].q[e.clear[2]][i].sum_cost

\* a subcase that qinsert lets into a queue
BtpFeasible(t, blk) ==
  blk.sum_cost # NaN /\ blk.sum_cost < Inf /\ blk.mem <= t.M /\ blk.cpu <= t.N

\* C24: in a BTP run no qmin reads an empty queue, neither the reads of a child's
\* queue during the loop over the nodes (a read of an empty queue ends the call
\* with an IndexError) nor the reads of every key of DP[root] at the end, and
\* every element of a queue but the default subcase of infinite cost has
\* mem <= M, cpu <= N and a finite sum_cost.
C24_QueuesReadAreNotEmpty ==
  (btp_res # NotCalled /\ tree_greedy_res = NotCalled /\ tree_c_max(tree) >= 0) =>
    /\ \A e \in BtpEvents(tree) :
         /\ e.st.exc = ""
         /\ \A q \in BtpQueues(tree, e.st) : \A i \in 1..Len(q) :
              q[i] = TBlockDefault \/ BtpFeasible(tree, q[i])
    /\ \A i \in 1..Len(btp_prefix(tree, tree.n).DP[tree.root].keys) :
         qmin_ok(btp_prefix(tree, tree.n), tree.root,
                 btp_prefix(tree, tree.n).DP[tree.root].keys[i])

\* a BTP run where the merges left no subcase for some number of cuts c >= 1 of
\* the root: the queue of that key holds the default subcase alone when line 156
\* reads it, while other queues hold subcases that qinsert let in
C24_Witness ==
  /\ btp_res # NotCalled /\ btp_res.ret \in {"opt", "inf"} /\ tree_greedy_res = NotCalled
  /\ \E i \in 1..Len(btp_prefix(tree, tree.n).DP[tree.root].keys) :
       /\ btp_prefix(tree, tree.n).DP[tree.root].keys[i] >= 1
       /\ btp_prefix(tree, tree.n).DP[tree.root].q[
            btp_prefix(tree, tree.n).DP[tree.root].keys[i]] = <<TBlockDefault>>
  /\ \E q \in BtpQueues(tree, btp_prefix(tree, tree.n)) :
       \E j \in 1..Len(q) : BtpFeasible(tree, q[j])

\* the pairs (m, c) that lines 174-176 add to barr while the block of the barrier
\* node bc = (b, c) is walked from its tail up to b
extract_scheduled(t, st, bc) ==
  extract_walk(t, bc[1], bc[2], st.DP[bc[1]].q[bc[2]][1].w, None,
               [blk |-> <<>>, e |-> [n |-> 1..t.n, barr |-> {}, p |-> {}, exc |-> ""]]).e.barr

RECURSIVE extract_pairs(_, _, _, _)
\* every pair that is in barr at some time of the rebuild: todo are the pairs not
\* yet popped, seen the pairs popped; a pair without a subcase schedules nothing
extract_pairs(t, st, todo, seen) ==
  IF todo = {} THEN seen
  ELSE LET bc == CHOOSE x \in todo : TRUE
       IN IF ~qmin_ok(st, bc[1], bc[2])
            THEN extract_pairs(t, st, todo \ {bc}, seen \cup {bc})
            ELSE extract_pairs(t, st,
                               (todo \cup extract_scheduled(t, st, bc)) \ (seen \cup {bc}),
                               seen \cup {bc})

\* the pair (node, c) names a queue of DP[node] whose head passes the tests of qinsert
PairIsFeasible(t, st, node, c) ==
  /\ c >= 0
  /\ \E i \in 1..Len(st.DP[node].keys) : st.DP[node].keys[i] = c
  /\ qmin_ok(st, node, c)
  /\ BtpFeasible(t, st.DP[node].q[c][1])

\* C25: the partition that extract_blocks rebuilds for a feasible BTP result
\* (partition, cost, c_opt) has exactly c_opt edges of the critical path between
\* two blocks, and every pair (node, c) scheduled as a barrier during the rebuild
\* has c >= 0 and names an existing queue whose head is a feasible subcase; no
\* rebuild ends in an exception.
C25_RebuildHasCoptCuts ==
  (btp_res # NotCalled /\ tree_greedy_res = NotCalled) =>
    /\ btp_res.ret \notin {"IndexError", "KeyError"}
    /\ btp_res.ret = "opt" =>
         /\ Cardinality(CutEdges(tree, btp_res)) = btp_res.third
         /\ \A bc \in extract_pairs(tree, btp_prefix(tree, tree.n),
                                    {<<tree.root, btp_res.third>>}, {}) :
              PairIsFeasible(tree, btp_prefix(tree, tree.n), bc[1], bc[2])

\* a feasible BTP result with a cut on the critical path, whose rebuild schedules
\* a node of the critical path with one cut less and a node off it with 0 cuts
C25_Witness ==
  /\ btp_res # NotCalled /\ btp_res.ret = "opt" /\ tree_greedy_res = NotCalled
  /\ btp_res.third >= 1
  /\ \E bc \in extract_pairs(tree, btp_prefix(tree, tree.n),
                             {<<tree.root, btp_res.third>>}, {}) :
       bc[1] \in cpath(tree) /\ bc[1] # tree.root /\ bc[2] = btp_res.third - 1
  /\ \E bc \in extract_pairs(tree, btp_prefix(tree, tree.n),
                             {<<tree.root, btp_res.third>>}, {}) :
       bc[1] \notin cpath(tree)

\* the cost of the blocks of a barrier list of the chain c: for every block
\* [b, w], rate[b] * ceil(sum(runtime[b..w]) / unit) * unit
ChainPartitionCost(c, barr) ==
  SumRange([i \in 1..Len(barr) |->
              c.rate[barr[i]]
                * (CeilDiv(SumRange(c.runtime, barr[i],
                                    (IF i < Len(barr) THEN barr[i + 1] ELSE c.n) - 1),
                           c.unit) * c.unit)],
           1, Len(barr))

\* the head of a block of a tree: its node whose predecessor is outside
BlockHead(t, blk) == CHOOSE v \in Range(blk) : t.parent[v] \notin Range(blk)

\* the cost of the blocks of a partition of the tree t: for every block, the rate
\* of the edge entering its head * ceil(sum of its runtimes / unit) * unit
TreePartitionCost(t, part) ==
  SumSet([blk \in part |->
            t.rate[BlockHead(t, blk)]
              * (CeilDiv(SumSet(t.runtime, Range(blk)), t.unit) * t.unit)],
         part)

TieHeads(c, DP, w, k) ==
  {b \in k..w :
     /\ block_memory(c.memory, b, w) <= c.M
     /\ block_cpu(c.rate, b, w) <= c.N
     /\ Plus(DP[b - 1][k - 1].lat,
             block_latency(c.runtime, b, w, c.delay, c.start, c.end)) <= c.L}

\* DP[b-1][k-1].cost + cost(b, w)
TieCost(c, DP, w, k, b) ==
  Plus(DP[b - 1][k - 1].cost, block_cost(c.runtime, c.rate, b, w, c.unit))

\* the heads of TieHeads that attain the least cost
TieBest(c, DP, w, k) ==
  {b \in TieHeads(c, DP, w, k) :
     \A x \in TieHeads(c, DP, w, k) : TieCost(c, DP, w, k, b) <= TieCost(c, DP, w, k, x)}

\* in every cell DP[w][k] with 1 <= k <= w that has such a head, the barrier
\* stored is the smallest of the cheapest heads
SmallestHeadStored(c, DP) ==
  \A w \in 1..(c.n - 1) : \A k \in 1..w :
    TieBest(c, DP, w, k) # {} =>
      /\ DP[w][k].barr \in TieBest(c, DP, w, k)
      /\ \A b \in TieBest(c, DP, w, k) : DP[w][k].barr <= b

\* C27: in the chain DP, scalar and vectorised, the barrier stored in DP[w][k] is
\* the smallest of the block heads b in [k..w] that meet the memory, CPU and
\* latency constraints and attain the least DP[b-1][k-1].cost + cost(b, w): among
\* equal costs the largest trailing block is kept.
C27_SmallestCheapestHeadStored ==
  /\ (scp_res # NotCalled /\ scp_res.ret \in {"opt", "inf"}) =>
       SmallestHeadStored(chain, chain_dp(chain))
  /\ (vec_res # NotCalled /\ vec_res.ret \in {"opt", "inf"}) =>
       SmallestHeadStored(chain, vec_chain_dp(chain))

(***************************************************************************)
(* C28: the cores of a block                                               *)
(***************************************************************************)
\* the largest rate among rate[lo .. hi]
RangeMax(rate, lo, hi) ==
  CHOOSE m \in {rate[j] : j \in lo..hi} : \A j \in lo..hi : rate[j] <= m

\* ceil(a / b) of positive integers: the least q with q * b >= a
CeilOf(a, b) == CHOOSE q \in 1..a : q * b >= a /\ (q - 1) * b < a

\* the cores node i of a block ending at w asks for
CoresAt(rate, i, w) == CeilOf(RangeMax(rate, i, w), rate[i])

\* the maximum over i in [b .. w] of ceil(max(rate[i .. w]) / rate[i])
CoresByFormula(rate, b, w) ==
  CHOOSE c \in {CoresAt(rate, i, w) : i \in b..w} : \A i \in b..w : CoresAt(rate, i, w) <= c

NonIncreasing(rate, b, w) == \A i \in b..(w - 1) : rate[i] >= rate[i + 1]

\* C28: for every vector of positive rates and every block [b, w], block_cpu is
\* the maximum over the nodes i of the block of ceil(max(rate[i .. w]) / rate[i]),
\* and it is 1 whenever rate[b .. w] does not increase
C28_BlockCpuIsMaxOfRatios ==
  chain # NoInput =>
    \A b \in 0..(chain.n - 1) : \A w \in b..(chain.n - 1) :
      /\ block_cpu(chain.rate, b, w) = CoresByFormula(chain.rate, b, w)
      /\ NonIncreasing(chain.rate, b, w) => block_cpu(chain.rate, b, w) = 1

\* a called chain with a block whose largest ratio 3 / 2 is rounded up to 2 cores
\* and a block of falling rates that takes 1 core
C28_Witness ==
  /\ chain # NoInput /\ scp_res # NotCalled
  /\ \E b \in 0..(chain.n - 1) : \E w \in (b + 1)..(chain.n - 1) :
       /\ \A i \in b..w : chain.rate[i] >= 2
       /\ \E i \in b..w : chain.rate[i] = 2 /\ RangeMax(chain.rate, i, w) = 3
       /\ block_cpu(chain.rate, b, w) = 2
  /\ \E b \in 0..(chain.n - 1) : \E w \in (b + 1)..(chain.n - 1) :
       /\ chain.rate[b] > chain.rate[w]
       /\ NonIncreasing(chain.rate, b, w)
       /\ block_cpu(chain.rate, b, w) = 1

(***************************************************************************)
(* C29: the latency of a partition of a chain                              *)
(***************************************************************************)
\* every barrier list of the chain 0..n-1: strictly increasing from 0
AllBarrierLists(n) == {SortedSeq({0} \cup cut) : cut \in SUBSET (1..(n - 1))}

\* sum(runtime[start .. end]) + delay * the number of barriers in (start, end]
LatencyByFormula(c, barr) ==
  SumRange(c.runtime, c.start, c.end)
    + c.delay * Cardinality({i \in 1..Len(barr) : c.start < barr[i] /\ barr[i] <= c.end})

\* the blocks off the subchain add nothing, the block holding start adds no delay
BlocksOffAndAtStart(c, barr) ==
  \A i \in 1..Len(barr) :
    LET blk == recreate_chain_blocks(barr, c.n)[i]
        lat == block_latency(c.runtime, blk[1], blk[2], c.delay, c.start, c.end)
    IN /\ (c.end < blk[1] \/ blk[2] < c.start) => lat = 0
       /\ (blk[1] <= c.start /\ c.start <= blk[2])
            => lat = SumRange(c.runtime, c.start, Min(blk[2], c.end))

\* C29: for every barrier list of a chain and every 0 <= start <= end <= n - 1
\* the sum of block_latency over the blocks is sum(runtime[start .. end]) plus
\* delay times the number of barriers b with start < b <= end; a block disjoint
\* from [start, end] adds 0 and the block that contains start adds no delay
C29_LatencyIsRuntimePlusDelays ==
  chain # NoInput =>
    \A barr \in AllBarrierLists(chain.n) :
      /\ chain_sum_lat(chain, barr) = LatencyByFormula(chain, barr)
      /\ BlocksOffAndAtStart(chain, barr)

\* a partition returned for a chain of unequal runtimes and delay 2 with a block before start,
\* start inside a block and a barrier in (start, end]
C29_Witness ==
  /\ chain # NoInput /\ scp_res # NotCalled /\ scp_res.ret = "opt"
  /\ \E i \in 0..(chain.n - 1) : chain.runtime[i] # chain.runtime[0]
  /\ chain.delay = 2 /\ chain.end < chain.n - 1
  /\ \E i \in 1..Len(scp_res.barr) :
       recreate_chain_blocks(scp_res.barr, chain.n)[i][2] < chain.start
  /\ \E i \in 1..Len(scp_res.barr) :
       scp_res.barr[i] < chain.start
         /\ chain.start <= recreate_chain_blocks(scp_res.barr, chain.n)[i][2]
  /\ \E i \in 1..Len(scp_res.barr) :
       chain.start < scp_res.barr[i] /\ scp_res.barr[i] <= chain.end
  /\ chain_sum_lat(chain, scp_res.barr) = LatencyByFormula(chain, scp_res.barr)
  /\ scp_res.lat = LatencyByFormula(chain, scp_res.barr)

(***************************************************************************)
(* C30: the traversal order of ipostorder_dfs                              *)
(***************************************************************************)
\* m lies below v in the tree
IsDescendant(t, m, v) == m # v /\ v \in ibacktrack_chain(t, PLATFORM, m)

\* the pairs yielded so far: nodes of the tree with their predecessors,
\* no node twice, every node after all the nodes below it
DfsOrder(t, out) ==
  \A i \in 1..Len(out) :
    /\ out[i][2] \in 1..t.n
    /\ out[i][1] = t.parent[out[i][2]]
    /\ \A j \in 1..Len(out) : out[j][2] = out[i][2] => j = i
    /\ \A m \in 1..t.n : IsDescendant(t, m, out[i][2]) => \E j \in 1..(i - 1) : out[j][2] = m

\* every node of the tree has been yielded, in the order MTP and BTP loop over
DfsComplete(t, out) ==
  /\ \A v \in 1..t.n : \E i \in 1..Len(out) : out[i][2] = v
  /\ out = ipostorder_dfs(t, PLATFORM)

\* C30: ipostorder_dfs(tree, PLATFORM) terminates on every tree; it yields each
\* node but PLATFORM exactly once, paired with its predecessor, and only after
\* every node below it, which is the order in which MTP and BTP meet the nodes
C30_PostOrderTerminates ==
  /\ [](dfs.pc # "idle" => DfsOrder(tree, dfs.out))
  /\ [](dfs.pc = "done" => DfsComplete(tree, dfs.out))
  /\ <>(dfs.pc = "done")

\* the generator has ended on a tree of DfsNodes nodes with a branching node
\* that has a grandchild
C30_Witness ==
  /\ dfs.pc = "done" /\ tree.n = DfsNodes /\ Len(dfs.out) = DfsNodes
  /\ \E v \in 1..tree.n : Cardinality(succ(tree, v)) >= 2
  /\ \E v \in 1..tree.n : \E m \in 1..tree.n :
       IsDescendant(tree, m, v) /\ tree.parent[m] # v

====
